---- MODULE Spec2Model ----
(***************************************************************************)
(* Medication reminder backend (src/backend/app.py): the status classifier *)
(* with its snooze cache and intake ledger, and the OTP / session /        *)
(* rate-limit state machine.                                               *)
(*                                                                         *)
(* Time is counted in whole seconds of the process's local clock           *)
(* (datetime.now()); instant 0 is 00:00:00 of day 0, a Monday.  A request  *)
(* handler runs at one instant of that clock and, in the specifications    *)
(* of single requests, without another request in between; the            *)
(* specifications of the threaded server (app.run) run the handlers       *)
(* statement by statement in two threads.                                  *)
(* Strings whose characters the code inspects (times of day) are tuples of *)
(* one-character strings; all other strings are TLA+ strings.              *)
(***************************************************************************)
EXTENDS Integers, Sequences, FiniteSets, TLC

VARIABLES
    now,               \* the local wall clock, datetime.now()
    ticks,             \* how often the clock has advanced
    utc_offset,        \* local time minus UTC, fixed by the process's time zone
    auth_enabled,      \* AUTH_ENABLED
    config,            \* the content of reminder.yaml
    intake_log,        \* the rows of table intake_log, in insertion order
    snooze_cache,      \* (medication, time) -> snooze_until
    otp_cache,         \* email -> [otp, expires, attempts]
    session_cache,     \* token -> [email, expires]
    rate_limit_cache,  \* ip -> [count, reset_time]
    issued,            \* number of session tokens drawn so far
    outbox,            \* the mails the last OTP request handed to SMTP
    resp,              \* the last request and the response it got
    evicted,           \* the cache entries the last request deleted
    calls,             \* thread -> the frame of the request it is handling
    tally              \* outcome -> how many requests of the threads had it

vars == <<now, ticks, utc_offset, auth_enabled, config, intake_log,
          snooze_cache, otp_cache, session_cache, rate_limit_cache, issued,
          outbox, resp, evicted, calls, tally>>

statusVars == <<intake_log, snooze_cache>>
authVars == <<otp_cache, session_cache, rate_limit_cache, issued, outbox>>
envVars == <<utc_offset, auth_enabled, config>>
raceVars == <<calls, tally>>

-----------------------------------------------------------------------------
(* Bounds of the model *)

MaxTicks == 1
MaxAuthTicks == 1
MaxLedger == 1
MaxRows == 2
MaxCalls == 6
MaxPasses == 2
MaxCount == 7
MaxTokens == 2

-----------------------------------------------------------------------------
(* Program constants *)

RATE_LIMIT_REQUESTS == 5
RATE_LIMIT_WINDOW == 300
OTP_EXPIRY_MINUTES == 5
SESSION_EXPIRY_DAYS == 30
SNOOZE_MINUTES == 5
MAX_OTP_ATTEMPTS == 3
MAX_MEDICATION_LEN == 100
DEFAULT_REMINDER_WINDOW == 30

SecondsPerMinute == 60
SecondsPerDay == 24 * 60 * 60

None == "None"
NoToken == 0

\* the threads of the server
Threads == {1, 2}

\* a thread that handles no request
Idle == [pc |-> "idle"]

NoCalls == [t \in Threads |-> Idle]

\* the outcomes counted over the requests of the threads
NoTally == [started |-> 0, admitted |-> 0, rejected |-> 0, compared |-> 0, faults |-> 0]

-----------------------------------------------------------------------------
(* Calendar arithmetic on instants *)

\* the calendar date of an instant, as a day number (strftime('%Y-%m-%d'))
DateOf(t) == t \div SecondsPerDay

\* datetime.weekday(): 0 = Monday ... 6 = Sunday
WeekdayOf(t) == DateOf(t) % 7

\* Python's int() of the float secs / 60: truncation towards zero
IntMinutes(secs) ==
    IF secs >= 0 THEN secs \div SecondsPerMinute
                 ELSE -((-secs) \div SecondsPerMinute)

\* int(abs(secs / 60))
AbsIntMinutes(secs) ==
    IF secs >= 0 THEN secs \div SecondsPerMinute
                 ELSE (-secs) \div SecondsPerMinute

-----------------------------------------------------------------------------
(* Time-of-day strings *)

Digits == {"0", "1", "2", "3", "4", "5", "6", "7", "8", "9"}

DigitVal ==
    "0" :> 0 @@ "1" :> 1 @@ "2" :> 2 @@ "3" :> 3 @@ "4" :> 4 @@
    "5" :> 5 @@ "6" :> 6 @@ "7" :> 7 @@ "8" :> 8 @@ "9" :> 9

\* code points, for the lexical order of Python strings
CharCode ==
    "\n" :> 10 @@ "0" :> 48 @@ "1" :> 49 @@ "2" :> 50 @@ "3" :> 51 @@
    "4" :> 52 @@ "5" :> 53 @@ "6" :> 54 @@ "7" :> 55 @@ "8" :> 56 @@
    "9" :> 57 @@ ":" :> 58

\* a < b for Python strings
RECURSIVE StrLess(_, _)
StrLess(a, b) ==
    IF b = <<>> THEN FALSE
    ELSE IF a = <<>> THEN TRUE
    ELSE IF CharCode[Head(a)] # CharCode[Head(b)]
         THEN CharCode[Head(a)] < CharCode[Head(b)]
    ELSE StrLess(Tail(a), Tail(b))

\* re.match(r'^([01]?[0-9]|2[0-3]):[0-5][0-9]$', s); "$" also matches before
\* one trailing newline
TimeFormatOk(s) ==
    LET n == Len(s)
        body == IF n > 0 /\ s[n] = "\n" THEN SubSeq(s, 1, n - 1) ELSE s
    IN  \/ /\ Len(body) = 5
           /\ \/ body[1] \in {"0", "1"} /\ body[2] \in Digits
              \/ body[1] = "2" /\ body[2] \in {"0", "1", "2", "3"}
           /\ body[3] = ":"
           /\ body[4] \in {"0", "1", "2", "3", "4", "5"}
           /\ body[5] \in Digits
        \/ /\ Len(body) = 4
           /\ body[1] \in Digits
           /\ body[2] = ":"
           /\ body[3] \in {"0", "1", "2", "3", "4", "5"}
           /\ body[4] \in Digits

\* the seconds after midnight that strptime(..., '%H:%M') reads from "H:MM" or
\* "HH:MM"
SecondsOfTime(s) ==
    LET hh == IF s[2] = ":" THEN DigitVal[s[1]]
                            ELSE 10 * DigitVal[s[1]] + DigitVal[s[2]]
        k  == IF s[2] = ":" THEN 3 ELSE 4
        mm == 10 * DigitVal[s[k]] + DigitVal[s[k + 1]]
    IN  hh * 60 * SecondsPerMinute + mm * SecondsPerMinute

-----------------------------------------------------------------------------
(* Weekday tokens *)

WEEKDAY_MAP ==
    "mo" :> 0 @@ "mon" :> 0 @@ "monday" :> 0 @@ "montag" :> 0 @@
    "di" :> 1 @@ "tue" :> 1 @@ "tuesday" :> 1 @@ "dienstag" :> 1 @@
    "mi" :> 2 @@ "wed" :> 2 @@ "wednesday" :> 2 @@ "mittwoch" :> 2 @@
    "do" :> 3 @@ "thu" :> 3 @@ "thursday" :> 3 @@ "donnerstag" :> 3 @@
    "fr" :> 4 @@ "fri" :> 4 @@ "friday" :> 4 @@ "freitag" :> 4 @@
    "sa" :> 5 @@ "sat" :> 5 @@ "saturday" :> 5 @@ "samstag" :> 5 @@
    "so" :> 6 @@ "sun" :> 6 @@ "sunday" :> 6 @@ "sonntag" :> 6

\* day.lower().strip() on the day tokens the configurations use
DayLowerStrip ==
    "Mo" :> "mo" @@ " TUE " :> "tue" @@ "Dienstag" :> "dienstag" @@
    "sun" :> "sun" @@ "daily" :> "daily"

\* is_scheduled_today without the weekday comparison
is_scheduled_today_AnyDay(days_config, t) ==
    TRUE

is_scheduled_today(days_config, t) ==
    IF days_config = <<>> THEN TRUE
    ELSE \E i \in 1..Len(days_config) :
            LET day_lower == DayLowerStrip[days_config[i]]
            IN  /\ day_lower \in DOMAIN WEEKDAY_MAP
                /\ WEEKDAY_MAP[day_lower] = WeekdayOf(t)

-----------------------------------------------------------------------------
(* Intake ledger and snooze cache *)

\* SELECT COUNT(*) ... WHERE medication = ? AND scheduled_time = ? AND
\* DATE(created_at) = today AND status = 'taken': created_at is SQLite's
\* CURRENT_TIMESTAMP, which is UTC; today is the local date
was_taken_today(medication, scheduled_time, t) ==
    LET today == DateOf(t)
        count == Cardinality({i \in 1..Len(intake_log) :
                    /\ intake_log[i].medication = medication
                    /\ intake_log[i].scheduled_time = scheduled_time
                    /\ DateOf(intake_log[i].created_at) = today
                    /\ intake_log[i].status = "taken"})
    IN  count > 0

\* is_snoozed with the comparison "now <= snooze_until"
is_snoozed_Inclusive(cache, medication, scheduled_time, t) ==
    LET key == <<medication, scheduled_time>>
    IN  IF key \notin DOMAIN cache THEN FALSE
        ELSE t <= cache[key]

\* the value is_snoozed returns for a key of cache
is_snoozed(cache, medication, scheduled_time, t) ==
    LET key == <<medication, scheduled_time>>
    IN  IF key \notin DOMAIN cache THEN FALSE
        ELSE t < cache[key]

\* the snooze cache is_snoozed leaves behind: an expired entry is deleted
SnoozeAfterCheck(cache, medication, scheduled_time, t) ==
    LET key == <<medication, scheduled_time>>
    IN  IF key \in DOMAIN cache /\ ~(t < cache[key])
        THEN [k \in DOMAIN cache \ {key} |-> cache[k]]
        ELSE cache

\* validate_medication_input: None when valid, else the error message
validate_medication_input(medication, scheduled_time) ==
    IF medication = "" THEN "Invalid medication name"
    ELSE IF Len(medication) > MAX_MEDICATION_LEN THEN "Medication name too long"
    ELSE IF scheduled_time = <<>> THEN "Invalid time"
    ELSE IF ~TimeFormatOk(scheduled_time) THEN "Invalid time format (use HH:MM)"
    ELSE None

-----------------------------------------------------------------------------
(* Status classifier *)

\* the (medication, time) pairs the two loops of get_medication_status visit,
\* in order
RECURSIVE TimesOf(_, _)
TimesOf(name, times) ==
    IF times = <<>> THEN <<>>
    ELSE <<[medication |-> name, time |-> Head(times)]>> \o TimesOf(name, Tail(times))

RECURSIVE VisitedPairs(_, _)
VisitedPairs(meds, t) ==
    IF meds = <<>> THEN <<>>
    ELSE LET med == Head(meds)
         IN  (IF med.enabled /\ is_scheduled_today(med.days, t)
              THEN TimesOf(med.name, med.times) ELSE <<>>)
             \o VisitedPairs(Tail(meds), t)

\* datetime.strptime(f"{today_str} {time_str}", '%Y-%m-%d %H:%M')
ScheduledInstant(time_str, t) == DateOf(t) * SecondsPerDay + SecondsOfTime(time_str)

\* BucketOf with the first comparison "diff_minutes >= window_minutes"
BucketOf_OverdueInclusive(diff_seconds, window_minutes) ==
    IF diff_seconds >= window_minutes * SecondsPerMinute THEN "overdue"
    ELSE IF diff_seconds >= -(window_minutes * SecondsPerMinute) THEN "due"
    ELSE "upcoming"

\* the bucket of a time difference; window_minutes is compared with diff / 60
BucketOf(diff_seconds, window_minutes) ==
    IF diff_seconds > window_minutes * SecondsPerMinute THEN "overdue"
    ELSE IF diff_seconds >= -(window_minutes * SecondsPerMinute) THEN "due"
    ELSE "upcoming"

\* med_info with minutes_late and minutes_until in every entry
MedInfo_BothFields(p, t, window_minutes) ==
    LET scheduled == ScheduledInstant(p.time, t)
        diff == t - scheduled
    IN  [medication |-> p.medication, time |-> p.time,
         scheduled |-> scheduled, minutes_diff |-> AbsIntMinutes(diff),
         minutes_late |-> IntMinutes(diff), minutes_until |-> AbsIntMinutes(diff)]

\* med_info of one listed pair
MedInfo(p, t, window_minutes) ==
    LET scheduled == ScheduledInstant(p.time, t)
        diff == t - scheduled
        base == [medication |-> p.medication, time |-> p.time,
                 scheduled |-> scheduled, minutes_diff |-> AbsIntMinutes(diff)]
    IN  IF BucketOf(diff, window_minutes) = "overdue"
        THEN base @@ [minutes_late |-> IntMinutes(diff)]
        ELSE IF BucketOf(diff, window_minutes) = "due"
        THEN (IF diff > 0 THEN base @@ [minutes_late |-> IntMinutes(diff)]
                          ELSE base @@ [minutes_until |-> AbsIntMinutes(diff)])
        ELSE base @@ [minutes_until |-> AbsIntMinutes(diff)]

\* list.sort(key=lambda x: x['time']): a stable sort by the time string
RECURSIVE InsertByTime(_, _)
InsertByTime(sorted, e) ==
    IF sorted = <<>> THEN <<e>>
    ELSE IF StrLess(e.time, Head(sorted).time) THEN <<e>> \o sorted
    ELSE <<Head(sorted)>> \o InsertByTime(Tail(sorted), e)

RECURSIVE SortByTime(_)
SortByTime(s) ==
    IF s = <<>> THEN <<>>
    ELSE InsertByTime(SortByTime(SubSeq(s, 1, Len(s) - 1)), s[Len(s)])

\* the pairs that pass "already taken" and "snoozed", in visiting order
ListedPairs(cfg, cache, t) ==
    SelectSeq(VisitedPairs(cfg.medications, t),
              LAMBDA p : /\ ~was_taken_today(p.medication, p.time, t)
                         /\ ~is_snoozed(cache, p.medication, p.time, t))

RECURSIVE InfosOf(_, _, _, _)
InfosOf(pairs, t, window_minutes, bucket) ==
    IF pairs = <<>> THEN <<>>
    ELSE LET p == Head(pairs)
             diff == t - ScheduledInstant(p.time, t)
         IN  (IF BucketOf(diff, window_minutes) = bucket
              THEN <<MedInfo(p, t, window_minutes)>> ELSE <<>>)
             \o InfosOf(Tail(pairs), t, window_minutes, bucket)

\* the dictionary get_medication_status returns
get_medication_status(cfg, cache, t) ==
    LET window_minutes == cfg.settings.reminder_window
        listed == ListedPairs(cfg, cache, t)
    IN  [overdue   |-> SortByTime(InfosOf(listed, t, window_minutes, "overdue")),
         due       |-> SortByTime(InfosOf(listed, t, window_minutes, "due")),
         upcoming  |-> SortByTime(InfosOf(listed, t, window_minutes, "upcoming")),
         timestamp |-> t,
         settings  |-> cfg.settings]

\* the snooze cache get_medication_status leaves behind: is_snoozed runs for
\* every visited pair that is not taken
RECURSIVE SnoozeAfterStatus(_, _, _)
SnoozeAfterStatus(pairs, cache, t) ==
    IF pairs = <<>> THEN cache
    ELSE LET p == Head(pairs)
         IN  SnoozeAfterStatus(Tail(pairs),
                 IF was_taken_today(p.medication, p.time, t) THEN cache
                 ELSE SnoozeAfterCheck(cache, p.medication, p.time, t),
                 t)

-----------------------------------------------------------------------------
(* Sessions and the authentication gate *)

\* validate_session treating the instant of expiry as expired
validate_session_ExpiresInclusive(sessions, token, t) ==
    IF token = NoToken \/ token \notin DOMAIN sessions THEN None
    ELSE IF t >= sessions[token].expires THEN None
    ELSE sessions[token].email

\* the value validate_session returns: the bound email, or None
validate_session(sessions, token, t) ==
    IF token = NoToken \/ token \notin DOMAIN sessions THEN None
    ELSE IF t > sessions[token].expires THEN None
    ELSE sessions[token].email

\* the session cache validate_session leaves behind: an expired entry is deleted
SessionsAfterValidate(sessions, token, t) ==
    IF token # NoToken /\ token \in DOMAIN sessions /\ t > sessions[token].expires
    THEN [k \in DOMAIN sessions \ {token} |-> sessions[k]]
    ELSE sessions

\* require_auth entering the handler for every token that is in the cache
Authorized_AnyCachedToken(token) ==
    \/ ~auth_enabled
    \/ token # NoToken /\ token \in DOMAIN session_cache

\* require_auth: whether the decorated handler is entered
Authorized(token) ==
    \/ ~auth_enabled
    \/ validate_session(session_cache, token, now) # None

\* require_auth's effect on the session cache
GateSessions(token) ==
    IF auth_enabled THEN SessionsAfterValidate(session_cache, token, now)
                    ELSE session_cache

\* the session entry require_auth's validate_session deletes, if any
GateEvicted(token) ==
    IF auth_enabled /\ token # NoToken /\ token \in DOMAIN session_cache
       /\ now > session_cache[token].expires
    THEN {[cache |-> "session", key |-> token, entry |-> session_cache[token]]}
    ELSE {}

UnauthorizedBody == [error |-> "Unauthorized", auth_required |-> TRUE]

-----------------------------------------------------------------------------
(* Requests of the status side *)

\* a request without a JSON body
NoData == [empty |-> TRUE]

\* strftime('%H:%M') of an instant
HourMinute(t) ==
    LET s == t % SecondsPerDay
    IN  <<s \div (60 * SecondsPerMinute), (s % (60 * SecondsPerMinute)) \div SecondsPerMinute>>

\* GET /api/status
GetStatus(token) ==
    /\ session_cache' = GateSessions(token)
    /\ IF ~Authorized(token)
       THEN /\ resp' = [op |-> "status", req |-> [token |-> token],
                        status |-> 401, body |-> UnauthorizedBody]
            /\ evicted' = GateEvicted(token)
            /\ UNCHANGED snooze_cache
       ELSE /\ resp' = [op |-> "status", req |-> [token |-> token], status |-> 200,
                        body |-> get_medication_status(config, snooze_cache, now)]
            /\ snooze_cache' = SnoozeAfterStatus(VisitedPairs(config.medications, now),
                                                 snooze_cache, now)
            /\ evicted' = GateEvicted(token) \cup
                   {[cache |-> "snooze", key |-> k, entry |-> snooze_cache[k]] :
                       k \in DOMAIN snooze_cache \ DOMAIN snooze_cache'}
    /\ UNCHANGED <<now, ticks, envVars, raceVars, intake_log, otp_cache,
                   rate_limit_cache, issued, outbox>>

\* POST /api/snooze
Snooze(token, data) ==
    LET request == [token |-> token, data |-> data]
        error == validate_medication_input(data.medication, data.time)
        snooze_until == now + SNOOZE_MINUTES * SecondsPerMinute
    IN
    /\ session_cache' = GateSessions(token)
    /\ evicted' = GateEvicted(token)
    /\ IF ~Authorized(token)
       THEN /\ resp' = [op |-> "snooze", req |-> request,
                        status |-> 401, body |-> UnauthorizedBody]
            /\ UNCHANGED snooze_cache
       ELSE IF data = NoData
       THEN /\ resp' = [op |-> "snooze", req |-> request,
                        status |-> 400, body |-> [error |-> "No data provided"]]
            /\ UNCHANGED snooze_cache
       ELSE IF error # None
       THEN /\ resp' = [op |-> "snooze", req |-> request,
                        status |-> 400, body |-> [error |-> error]]
            /\ UNCHANGED snooze_cache
       ELSE /\ snooze_cache' = (<<data.medication, data.time>> :> snooze_until) @@ snooze_cache
            /\ resp' = [op |-> "snooze", req |-> request, status |-> 200,
                        body |-> [success |-> TRUE, snooze_until |-> HourMinute(snooze_until)]]
    /\ UNCHANGED <<now, ticks, envVars, raceVars, intake_log, otp_cache,
                   rate_limit_cache, issued, outbox>>

\* POST /api/confirm, while the ledger has fewer than limit rows
ConfirmIntakeWithin(token, data, limit) ==
    LET request == [token |-> token, data |-> data]
        error == validate_medication_input(data.medication, data.time)
        actual_time == now % SecondsPerDay
        row == [id |-> Len(intake_log) + 1,
                medication |-> data.medication,
                scheduled_time |-> data.time,
                actual_time |-> actual_time,
                status |-> "taken",
                created_at |-> now - utc_offset]
    IN
    /\ session_cache' = GateSessions(token)
    /\ evicted' = GateEvicted(token)
    /\ IF ~Authorized(token)
       THEN /\ resp' = [op |-> "confirm", req |-> request,
                        status |-> 401, body |-> UnauthorizedBody]
            /\ UNCHANGED intake_log
       ELSE IF data = NoData
       THEN /\ resp' = [op |-> "confirm", req |-> request,
                        status |-> 400, body |-> [error |-> "No data provided"]]
            /\ UNCHANGED intake_log
       ELSE IF error # None
       THEN /\ resp' = [op |-> "confirm", req |-> request,
                        status |-> 400, body |-> [error |-> error]]
            /\ UNCHANGED intake_log
       ELSE IF was_taken_today(data.medication, data.time, now)
       THEN /\ resp' = [op |-> "confirm", req |-> request, status |-> 409,
                        body |-> [error |-> "Already taken today", duplicate |-> TRUE]]
            /\ UNCHANGED intake_log
       ELSE /\ Len(intake_log) < limit
            /\ intake_log' = Append(intake_log, row)
            /\ resp' = [op |-> "confirm", req |-> request, status |-> 200,
                        body |-> [success |-> TRUE, medication |-> data.medication,
                                  scheduled_time |-> data.time,
                                  actual_time |-> actual_time]]
    /\ UNCHANGED <<now, ticks, envVars, raceVars, snooze_cache, otp_cache,
                   rate_limit_cache, issued, outbox>>

ConfirmIntake(token, data) == ConfirmIntakeWithin(token, data, MaxLedger)

\* the clock advances by d seconds between two requests, at most limit times
Tick(d, limit) ==
    /\ ticks < limit
    /\ now' = now + d
    /\ ticks' = ticks + 1
    /\ UNCHANGED <<envVars, raceVars, statusVars, authVars, resp, evicted>>

-----------------------------------------------------------------------------
(* The status side: configurations, inputs and specification *)

T0005 == <<"0", "0", ":", "0", "5">>
T0010 == <<"0", "0", ":", "1", "0">>
T2400 == <<"2", "4", ":", "0", "0">>

StatusConfigs ==
    { [medications |-> <<
          [name |-> "Aspirin", times |-> <<T0010, T0005>>, days |-> <<>>,
           enabled |-> TRUE],
          [name |-> "Ibu", times |-> <<T0005>>, days |-> <<" TUE ", "daily">>,
           enabled |-> TRUE],
          [name |-> "Zink", times |-> <<T0005>>, days |-> <<>>,
           enabled |-> FALSE] >>,
       settings |-> [reminder_window |-> SNOOZE_MINUTES],
       auth |-> [allowed_emails |-> <<>>]],
      [medications |-> <<
          [name |-> "Aspirin", times |-> <<T0005>>, days |-> <<"Mo", "sun">>,
           enabled |-> TRUE] >>,
       settings |-> [reminder_window |-> 0],
       auth |-> [allowed_emails |-> <<>>]] }

\* the instants the clock starts at: 00:00 and 00:10 of day 0, and 23:55 of
\* day 0
StartTimes == {0, 10 * SecondsPerMinute, SecondsPerDay - 5 * SecondsPerMinute}

\* the process runs in UTC or one hour east of it
UtcOffsets == {0, 60 * SecondsPerMinute}

StatusSteps == {1, 5 * SecondsPerMinute}

\* the bodies of the snooze and confirm requests: none, the two times of
\* Aspirin, an empty medication name, and a time that is no time of day
StatusData ==
    { NoData,
      [medication |-> "Aspirin", time |-> T0005],
      [medication |-> "Aspirin", time |-> T0010],
      [medication |-> "", time |-> T0005],
      [medication |-> "Aspirin", time |-> T2400] }

StatusTokens == {NoToken}

NoResponse == [op |-> "none", req |-> <<>>, status |-> 0, body |-> <<>>]

InitStatus ==
    /\ now \in StartTimes
    /\ ticks = 0
    /\ utc_offset \in UtcOffsets
    /\ auth_enabled = FALSE
    /\ config \in StatusConfigs
    /\ intake_log = <<>>
    /\ snooze_cache = <<>>
    /\ otp_cache = <<>>
    /\ session_cache = <<>>
    /\ rate_limit_cache = <<>>
    /\ issued = 0
    /\ outbox = <<>>
    /\ resp = NoResponse
    /\ evicted = {}
    /\ calls = NoCalls
    /\ tally = NoTally

NextStatus ==
    \/ \E token \in StatusTokens : GetStatus(token)
    \/ \E token \in StatusTokens, data \in StatusData : Snooze(token, data)
    \/ \E token \in StatusTokens, data \in StatusData : ConfirmIntake(token, data)
    \/ \E d \in StatusSteps : Tick(d, MaxTicks)

SpecStatus == InitStatus /\ [][NextStatus]_vars

\* the intake ledger over a day: one user confirms the two times of Aspirin,
\* around local midnight and around 01:00
LedgerConfigs == {cfg \in StatusConfigs : cfg.settings.reminder_window > 0}

LedgerStartTimes == {0, SecondsPerDay - 5 * SecondsPerMinute}

LedgerSteps == {5 * SecondsPerMinute, 60 * SecondsPerMinute}

LedgerData ==
    { NoData,
      [medication |-> "Aspirin", time |-> T0005],
      [medication |-> "Aspirin", time |-> T0010] }

InitLedger ==
    /\ now \in LedgerStartTimes
    /\ ticks = 0
    /\ utc_offset \in UtcOffsets
    /\ auth_enabled = FALSE
    /\ config \in LedgerConfigs
    /\ intake_log = <<>>
    /\ snooze_cache = <<>>
    /\ otp_cache = <<>>
    /\ session_cache = <<>>
    /\ rate_limit_cache = <<>>
    /\ issued = 0
    /\ outbox = <<>>
    /\ resp = NoResponse
    /\ evicted = {}
    /\ calls = NoCalls
    /\ tally = NoTally

NextLedger ==
    \/ \E token \in StatusTokens : GetStatus(token)
    \/ \E token \in StatusTokens, data \in LedgerData :
          ConfirmIntakeWithin(token, data, MaxRows)
    \/ \E d \in LedgerSteps : Tick(d, MaxTicks)

SpecLedger == InitLedger /\ [][NextLedger]_vars

-----------------------------------------------------------------------------
(* Requests of the authentication side *)

\* str.strip().lower() on the email inputs
StripLower ==
    "a@x.de" :> "a@x.de" @@ " A@X.de " :> "a@x.de" @@ "eve@x.de" :> "eve@x.de" @@
    "" :> ""

\* str.lower() on the entries of the allow-list
Lower == "A@x.de" :> "a@x.de" @@ "a@x.de" :> "a@x.de" @@ "eve@x.de" :> "eve@x.de"

\* str.strip() on the OTP inputs
Strip ==
    "111111" :> "111111" @@ " 222222 " :> "222222" @@ "000000" :> "000000" @@
    "" :> ""

\* X-Forwarded-For split at "," with the first value stripped
FirstForwarded == " 1.2.3.4 , 10.0.0.1" :> "1.2.3.4"

\* get_client_ip: the forwarded address when the header is present, else
\* the address of the connection
get_client_ip(request) ==
    IF request.forwarded # None THEN FirstForwarded[request.forwarded]
    ELSE request.remote_addr

\* check_rate_limit rejecting as soon as the count reaches the limit
RateLimitAllows_AtLimit(cache, ip, t) ==
    IF ip \notin DOMAIN cache THEN TRUE
    ELSE IF t > cache[ip].reset_time THEN TRUE
    ELSE ~(cache[ip].count + 1 >= RATE_LIMIT_REQUESTS)

\* whether check_rate_limit lets the request of ip pass at instant t
RateLimitAllows(cache, ip, t) ==
    IF ip \notin DOMAIN cache THEN TRUE
    ELSE IF t > cache[ip].reset_time THEN TRUE
    ELSE ~(cache[ip].count + 1 > RATE_LIMIT_REQUESTS)

\* the rate-limit cache check_rate_limit leaves behind
RateLimitAfter(cache, ip, t) ==
    IF ip \notin DOMAIN cache \/ t > cache[ip].reset_time
    THEN (ip :> [count |-> 1, reset_time |-> t + RATE_LIMIT_WINDOW]) @@ cache
    ELSE [cache EXCEPT ![ip].count = @ + 1]

\* is_email_allowed without the allow-list
is_email_allowed_Everyone(email) ==
    TRUE

\* is_email_allowed, on an already lowered email
is_email_allowed(email) ==
    \E i \in 1..Len(config.auth.allowed_emails) :
        Lower[config.auth.allowed_emails[i]] = email

\* the responses of auth_request to a request that passed the rate limit
\* and named an email
NotAllowedResponse ==
    [status |-> 200,
     body |-> [success |-> TRUE, message |-> "If email is registered, OTP was sent"]]

SentResponse == [status |-> 200, body |-> [success |-> TRUE, message |-> "OTP sent"]]

SendFailedResponse == [status |-> 500, body |-> [error |-> "Failed to send email"]]

\* the codes generate_otp draws
Codes == {"111111", "222222"}

\* what send_otp_email returns: True ("delivered") or False ("failed")
MailResults == {"delivered", "failed"}

\* auth_request without the allow-list check
ReachesOtp_AnyEmail(admitted, data) ==
    /\ admitted
    /\ data # NoData
    /\ StripLower[data.email] # ""

\* whether auth_request reaches generate_otp
ReachesOtp(admitted, data) ==
    /\ admitted
    /\ data # NoData
    /\ StripLower[data.email] # ""
    /\ is_email_allowed(StripLower[data.email])

\* auth_request storing the OTP before it looks at the rate limit
OtpAfterRequest_BeforeRateLimit(cache, admitted, data, otp, t) ==
    IF ReachesOtp(TRUE, data)
    THEN (StripLower[data.email] :>
             [otp |-> otp,
              expires |-> t + OTP_EXPIRY_MINUTES * SecondsPerMinute,
              attempts |-> 0]) @@ cache
    ELSE cache

\* the OTP cache auth_request leaves behind
OtpAfterRequest(cache, admitted, data, otp, t) ==
    IF ReachesOtp(admitted, data)
    THEN (StripLower[data.email] :>
             [otp |-> otp,
              expires |-> t + OTP_EXPIRY_MINUTES * SecondsPerMinute,
              attempts |-> 0]) @@ cache
    ELSE cache

\* the response of auth_request once the rate limit has admitted it or not
RequestResponse(admitted, data, sent) ==
    IF ~admitted
    THEN [status |-> 429, body |-> [error |-> "Too many requests. Please wait 5 minutes."]]
    ELSE IF data = NoData
    THEN [status |-> 400, body |-> [error |-> "Invalid request"]]
    ELSE IF StripLower[data.email] = ""
    THEN [status |-> 400, body |-> [error |-> "Email required"]]
    ELSE IF ~is_email_allowed(StripLower[data.email]) THEN NotAllowedResponse
    ELSE IF sent = "delivered" THEN SentResponse
    ELSE SendFailedResponse

\* POST /api/auth/request; otp is the code generate_otp draws and sent the
\* result of send_otp_email, both None when the handler returns before
RequestOTP(request, data, otp, sent) ==
    LET client_ip == get_client_ip(request)
        admitted == RateLimitAllows(rate_limit_cache, client_ip, now)
        email == StripLower[data.email]
        req == [request |-> request, data |-> data]
        answer(r) == [op |-> "request", req |-> req, status |-> r.status, body |-> r.body]
        stored == ReachesOtp(admitted, data)
    IN
    IF ~auth_enabled
    THEN /\ resp' = answer([status |-> 400, body |-> [error |-> "Auth not enabled"]])
         /\ outbox' = <<>>
         /\ evicted' = {}
         /\ UNCHANGED <<now, ticks, envVars, raceVars, statusVars, otp_cache, session_cache,
                        rate_limit_cache, issued>>
    ELSE
    /\ client_ip \in DOMAIN rate_limit_cache => rate_limit_cache[client_ip].count < MaxCount
    /\ IF stored THEN otp \in Codes /\ sent \in MailResults
                 ELSE otp = None /\ sent = None
    /\ rate_limit_cache' = RateLimitAfter(rate_limit_cache, client_ip, now)
    /\ evicted' = IF /\ client_ip \in DOMAIN rate_limit_cache
                     /\ now > rate_limit_cache[client_ip].reset_time
                  THEN {[cache |-> "rate", key |-> client_ip,
                         entry |-> rate_limit_cache[client_ip]]}
                  ELSE {}
    /\ otp_cache' = OtpAfterRequest(otp_cache, admitted, data, otp, now)
    /\ outbox' = IF stored /\ sent = "delivered" THEN <<[to |-> email, otp |-> otp]>> ELSE <<>>
    /\ resp' = answer(RequestResponse(admitted, data, sent))
    /\ UNCHANGED <<now, ticks, envVars, raceVars, statusVars, session_cache, issued>>

\* the attempts check made one attempt too early
TooManyAttempts_AtLimit(attempts) == attempts >= MAX_OTP_ATTEMPTS

\* "if stored['attempts'] > 3", on the incremented count
TooManyAttempts(attempts) == attempts > MAX_OTP_ATTEMPTS

\* create_session: the entry bound to a fresh token
NewSession(email, t) ==
    [email |-> email, expires |-> t + SESSION_EXPIRY_DAYS * SecondsPerDay]

\* auth_verify without the deletion of the entry a right code has used
OtpAfterVerify_KeepsUsed(cache, email, otp, t) ==
    LET without == [k \in DOMAIN cache \ {email} |-> cache[k]]
    IN  IF email \notin DOMAIN cache THEN cache
        ELSE IF t > cache[email].expires THEN without
        ELSE IF TooManyAttempts(cache[email].attempts + 1) THEN without
        ELSE [cache EXCEPT ![email].attempts = @ + 1]

\* the OTP cache auth_verify leaves behind when it has an email and a code
OtpAfterVerify(cache, email, otp, t) ==
    LET without == [k \in DOMAIN cache \ {email} |-> cache[k]]
    IN  IF email \notin DOMAIN cache THEN cache
        ELSE IF t > cache[email].expires THEN without
        ELSE IF TooManyAttempts(cache[email].attempts + 1) THEN without
        ELSE IF otp # cache[email].otp THEN [cache EXCEPT ![email].attempts = @ + 1]
        ELSE without

\* POST /api/auth/verify
VerifyOTP(data) ==
    LET email == StripLower[data.email]
        otp == Strip[data.otp]
        stored == otp_cache[email]
        token == issued + 1
        answer(st, b) == [op |-> "verify", req |-> [data |-> data], status |-> st, body |-> b]
        complete == auth_enabled /\ data # NoData /\ email # "" /\ otp # ""
    IN
    /\ otp_cache' = IF complete THEN OtpAfterVerify(otp_cache, email, otp, now)
                    ELSE otp_cache
    /\ evicted' = IF /\ complete
                     /\ email \in DOMAIN otp_cache
                     /\ (now > stored.expires \/ TooManyAttempts(stored.attempts + 1))
                  THEN {[cache |-> "otp", key |-> email, entry |-> stored]}
                  ELSE {}
    /\ IF ~auth_enabled
       THEN /\ resp' = answer(400, [error |-> "Auth not enabled"])
            /\ UNCHANGED <<session_cache, issued>>
       ELSE IF data = NoData
       THEN /\ resp' = answer(500, [error |-> "Internal Server Error"])
            /\ UNCHANGED <<session_cache, issued>>
       ELSE IF email = "" \/ otp = ""
       THEN /\ resp' = answer(400, [error |-> "Email and OTP required"])
            /\ UNCHANGED <<session_cache, issued>>
       ELSE IF email \notin DOMAIN otp_cache
       THEN /\ resp' = answer(401, [error |-> "Invalid or expired OTP"])
            /\ UNCHANGED <<session_cache, issued>>
       ELSE IF now > stored.expires
       THEN /\ resp' = answer(401, [error |-> "OTP expired"])
            /\ UNCHANGED <<session_cache, issued>>
       ELSE IF TooManyAttempts(stored.attempts + 1)
       THEN /\ resp' = answer(429, [error |-> "Too many attempts"])
            /\ UNCHANGED <<session_cache, issued>>
       ELSE IF otp # stored.otp
       THEN /\ resp' = answer(401, [error |-> "Invalid OTP"])
            /\ UNCHANGED <<session_cache, issued>>
       ELSE /\ issued < MaxTokens
            /\ issued' = token
            /\ session_cache' = (token :> NewSession(email, now)) @@ session_cache
            /\ resp' = [op |-> "verify", req |-> [data |-> data], status |-> 200,
                        body |-> [success |-> TRUE, email |-> email],
                        cookie |-> token]
    /\ UNCHANGED <<now, ticks, envVars, raceVars, statusVars, rate_limit_cache, outbox>>

\* GET /api/auth/check
AuthCheck(token) ==
    LET email == validate_session(session_cache, token, now)
    IN
    /\ IF ~auth_enabled
       THEN /\ resp' = [op |-> "check", req |-> [token |-> token], status |-> 200,
                        body |-> [authenticated |-> TRUE, auth_enabled |-> FALSE]]
            /\ evicted' = {}
            /\ UNCHANGED session_cache
       ELSE /\ resp' = [op |-> "check", req |-> [token |-> token], status |-> 200,
                        body |-> [authenticated |-> email # None,
                                  auth_enabled |-> TRUE, email |-> email]]
            /\ session_cache' = SessionsAfterValidate(session_cache, token, now)
            /\ evicted' = GateEvicted(token)
    /\ UNCHANGED <<now, ticks, envVars, raceVars, statusVars, otp_cache, rate_limit_cache, issued,
                   outbox>>

\* auth_logout deleting every session of the email the token is bound to
SessionsAfterLogout_AllOfEmail(sessions, token) ==
    IF token # NoToken /\ token \in DOMAIN sessions
    THEN [k \in {j \in DOMAIN sessions : sessions[j].email # sessions[token].email}
             |-> sessions[k]]
    ELSE sessions

\* the session cache auth_logout leaves behind
SessionsAfterLogout(sessions, token) ==
    IF token # NoToken /\ token \in DOMAIN sessions
    THEN [k \in DOMAIN sessions \ {token} |-> sessions[k]]
    ELSE sessions

\* POST /api/auth/logout
Logout(token) ==
    /\ session_cache' = SessionsAfterLogout(session_cache, token)
    /\ resp' = [op |-> "logout", req |-> [token |-> token], status |-> 200,
                body |-> [success |-> TRUE], cookie |-> NoToken]
    /\ evicted' = IF token # NoToken /\ token \in DOMAIN session_cache
                  THEN {[cache |-> "session", key |-> token, entry |-> session_cache[token]]}
                  ELSE {}
    /\ UNCHANGED <<now, ticks, envVars, raceVars, statusVars, otp_cache, rate_limit_cache, issued,
                   outbox>>

-----------------------------------------------------------------------------
(* The authentication side: configuration, inputs and specification *)

AuthConfigs ==
    { [medications |-> <<>>,
       settings |-> [reminder_window |-> DEFAULT_REMINDER_WINDOW],
       auth |-> [allowed_emails |-> <<"A@x.de">>]] }

\* a request of the client at 1.2.3.4 that came through the reverse proxy at
\* 10.0.0.1, and one that came directly
Requests ==
    { [forwarded |-> " 1.2.3.4 , 10.0.0.1", remote_addr |-> "10.0.0.1"],
      [forwarded |-> None, remote_addr |-> "1.2.3.4"] }

RequestData == {NoData, [email |-> " A@X.de "], [email |-> "eve@x.de"], [email |-> ""]}

VerifyData ==
    { NoData,
      [email |-> "a@x.de", otp |-> "111111"],
      [email |-> "a@x.de", otp |-> " 222222 "],
      [email |-> "a@x.de", otp |-> "000000"],
      [email |-> "a@x.de", otp |-> ""],
      [email |-> "eve@x.de", otp |-> "111111"] }

AuthTokens == 0..MaxTokens

\* the clock steps of the authentication side: to the end of a rate-limit
\* window or of an OTP's life, and one second past it
AuthSteps == {RATE_LIMIT_WINDOW, RATE_LIMIT_WINDOW + 1}

InitAuth ==
    /\ now = 0
    /\ ticks = 0
    /\ utc_offset = 0
    /\ auth_enabled = TRUE
    /\ config \in AuthConfigs
    /\ intake_log = <<>>
    /\ snooze_cache = <<>>
    /\ otp_cache = <<>>
    /\ session_cache = <<>>
    /\ rate_limit_cache = <<>>
    /\ issued = 0
    /\ outbox = <<>>
    /\ resp = NoResponse
    /\ evicted = {}
    /\ calls = NoCalls
    /\ tally = NoTally

\* OTP issuing and verification under the rate limit
NextAuth ==
    \/ \E request \in Requests, data \in RequestData :
          \E otp \in Codes \cup {None}, sent \in MailResults \cup {None} :
             RequestOTP(request, data, otp, sent)
    \/ \E data \in VerifyData : VerifyOTP(data)
    \/ \E d \in AuthSteps : Tick(d, MaxAuthTicks)

SpecAuth == InitAuth /\ [][NextAuth]_vars

\* the session life cycle: a user who is on the allow-list and whose mail
\* arrives logs in, checks the session and logs out
SessionRequestData == {[email |-> " A@X.de "]}

SessionVerifyData ==
    { [email |-> "a@x.de", otp |-> "111111"],
      [email |-> "a@x.de", otp |-> " 222222 "],
      [email |-> "a@x.de", otp |-> "000000"] }

\* the clock steps of the session side: to the end of a session's life, and
\* one second past it
SessionSteps == {SESSION_EXPIRY_DAYS * SecondsPerDay, SESSION_EXPIRY_DAYS * SecondsPerDay + 1}

NextSession ==
    \/ \E request \in Requests, data \in SessionRequestData :
          \E otp \in Codes, sent \in {"delivered"} :
             RequestOTP(request, data, otp, sent)
    \/ \E data \in SessionVerifyData : VerifyOTP(data)
    \/ \E token \in AuthTokens : AuthCheck(token)
    \/ \E token \in AuthTokens : Logout(token)
    \/ \E d \in SessionSteps : Tick(d, MaxAuthTicks)

SpecSession == InitAuth /\ [][NextSession]_vars

-----------------------------------------------------------------------------
(* The status side under malformed input *)

\* "00:05" followed by a line feed
T0005LF == <<"0", "0", ":", "0", "5", "\n">>

\* a medication name of 101 characters
LongName ==
    "AAAAAAAAAAAAAAAAAAAAAAAAAAAAAAAAAAAAAAAAAAAAAAAAAAAAAAAAAAAAAAAAAAAAAAAAAAAAAAAAAAAAAAAAAAAAAAAAAAAAA"

InputData ==
    { NoData,
      [medication |-> "Aspirin", time |-> T0005],
      [medication |-> "Aspirin", time |-> T0010],
      [medication |-> "", time |-> T0005],
      [medication |-> LongName, time |-> T0005],
      [medication |-> "Aspirin", time |-> <<>>],
      [medication |-> "Aspirin", time |-> T2400],
      [medication |-> "Aspirin", time |-> T0005LF] }

NextInput ==
    \/ \E token \in StatusTokens, data \in InputData : Snooze(token, data)
    \/ \E token \in StatusTokens, data \in InputData : ConfirmIntake(token, data)
    \/ \E d \in LedgerSteps : Tick(d, MaxTicks)

SpecInput == InitLedger /\ [][NextInput]_vars

-----------------------------------------------------------------------------
(* Requests in the threads of app.run: POST /api/confirm; every SQL
   statement is one step *)

\* the response of the confirm request of thread t
ConfirmAnswer(t, status, body) ==
    [op |-> "confirm", req |-> [token |-> NoToken, data |-> calls[t].data],
     status |-> status, body |-> body]

\* confirm_intake up to the call of was_taken_today
StartConfirm(t, data) ==
    LET error == validate_medication_input(data.medication, data.time)
        request == [token |-> NoToken, data |-> data]
    IN
    /\ calls[t].pc = "idle"
    /\ ~auth_enabled
    /\ tally.started < MaxCalls
    /\ tally' = [tally EXCEPT !.started = @ + 1]
    /\ IF data = NoData
       THEN /\ resp' = [op |-> "confirm", req |-> request, status |-> 400,
                        body |-> [error |-> "No data provided"]]
            /\ evicted' = {}
            /\ UNCHANGED calls
       ELSE IF error # None
       THEN /\ resp' = [op |-> "confirm", req |-> request, status |-> 400,
                        body |-> [error |-> error]]
            /\ evicted' = {}
            /\ UNCHANGED calls
       ELSE /\ calls' = [calls EXCEPT ![t] = [pc |-> "taken_test", data |-> data]]
            /\ UNCHANGED <<resp, evicted>>
    /\ UNCHANGED <<now, ticks, envVars, statusVars, authVars>>

\* "if was_taken_today(medication, scheduled_time)": the SELECT COUNT(*)
ConfirmTest(t) ==
    /\ calls[t].pc = "taken_test"
    /\ IF was_taken_today(calls[t].data.medication, calls[t].data.time, now)
       THEN /\ calls' = [calls EXCEPT ![t] = Idle]
            /\ tally' = [tally EXCEPT !.rejected = @ + 1]
            /\ resp' = ConfirmAnswer(t, 409, [error |-> "Already taken today",
                                              duplicate |-> TRUE])
            /\ evicted' = {}
       ELSE /\ calls' = [calls EXCEPT ![t].pc = "insert"]
            /\ UNCHANGED <<resp, evicted, tally>>
    /\ UNCHANGED <<now, ticks, envVars, statusVars, authVars>>

\* the INSERT, the commit and the response
ConfirmInsert(t) ==
    LET data == calls[t].data
        actual_time == now % SecondsPerDay
        row == [id |-> Len(intake_log) + 1,
                medication |-> data.medication,
                scheduled_time |-> data.time,
                actual_time |-> actual_time,
                status |-> "taken",
                created_at |-> now - utc_offset]
    IN
    /\ calls[t].pc = "insert"
    /\ Len(intake_log) < MaxRows
    /\ intake_log' = Append(intake_log, row)
    /\ calls' = [calls EXCEPT ![t] = Idle]
    /\ tally' = [tally EXCEPT !.admitted = @ + 1]
    /\ resp' = ConfirmAnswer(t, 200, [success |-> TRUE, medication |-> data.medication,
                                      scheduled_time |-> data.time,
                                      actual_time |-> actual_time])
    /\ evicted' = {}
    /\ UNCHANGED <<now, ticks, envVars, snooze_cache, authVars>>

\* the server's clock is UTC
InitConfirm == InitLedger /\ utc_offset = 0

\* two threads serve confirm requests while the clock advances
NextConfirm ==
    \/ \E t \in Threads, data \in LedgerData : StartConfirm(t, data)
    \/ \E t \in Threads : ConfirmTest(t)
    \/ \E t \in Threads : ConfirmInsert(t)
    \/ \E d \in LedgerSteps : Tick(d, MaxTicks)

SpecConfirm == InitConfirm /\ [][NextConfirm]_vars

-----------------------------------------------------------------------------
(* Requests in the threads of app.run: GET /api/status, statement by
   statement; the clock may advance between two statements *)

\* the medication and the time string the loops of thread t are at
PassMedOf(t) == config.medications[calls[t].m]
PassPairOf(t) ==
    [medication |-> PassMedOf(t).name, time |-> PassMedOf(t).times[calls[t].i]]
PassKeyOf(t) == <<PassPairOf(t).medication, PassPairOf(t).time>>

\* the frame after the pair was classified with the frame's "now" and
\* appended to its list, at the next time string
Classified(t) ==
    LET f == calls[t]
        window_minutes == config.settings.reminder_window
        p == PassPairOf(t)
        diff == f.clock - ScheduledInstant(p.time, f.clock)
        med_info == MedInfo(p, f.clock, window_minutes)
        bucket == BucketOf(diff, window_minutes)
    IN  [f EXCEPT !.pc = "pass_time", !.i = @ + 1,
                  !.overdue = IF bucket = "overdue" THEN Append(@, med_info) ELSE @,
                  !.due = IF bucket = "due" THEN Append(@, med_info) ELSE @,
                  !.upcoming = IF bucket = "upcoming" THEN Append(@, med_info) ELSE @]

\* the dictionary thread t returns
PassReport(t) ==
    [overdue   |-> SortByTime(calls[t].overdue),
     due       |-> SortByTime(calls[t].due),
     upcoming  |-> SortByTime(calls[t].upcoming),
     timestamp |-> calls[t].clock,
     settings  |-> config.settings]

\* an exception in get_medication_status: get_status answers 500
PassFault(t) ==
    /\ calls' = [calls EXCEPT ![t] = Idle]
    /\ tally' = [tally EXCEPT !.faults = @ + 1]
    /\ resp' = [op |-> "status", req |-> [token |-> NoToken], status |-> 500,
                body |-> [error |-> "KeyError"]]
    /\ evicted' = {}
    /\ UNCHANGED snooze_cache

\* get_status and get_medication_status up to the loop: "now = datetime.now()"
\* is read once; snoozed is the snooze cache at that instant
StartPass(t) ==
    /\ calls[t].pc = "idle"
    /\ ~auth_enabled
    /\ tally.started < MaxPasses
    /\ tally' = [tally EXCEPT !.started = @ + 1]
    /\ calls' = [calls EXCEPT ![t] =
                    [pc |-> "pass_med", clock |-> now, snoozed |-> snooze_cache,
                     m |-> 1, i |-> 1, snooze_until |-> 0,
                     overdue |-> <<>>, due |-> <<>>, upcoming |-> <<>>]]
    /\ UNCHANGED <<now, ticks, envVars, statusVars, authVars, resp, evicted>>

\* "for med in ...", "if not med.get('enabled')" and "if not
\* is_scheduled_today(...)", which reads the clock again
PassMed(t) ==
    /\ calls[t].pc = "pass_med"
    /\ calls' = [calls EXCEPT ![t] =
          IF calls[t].m > Len(config.medications)
          THEN [@ EXCEPT !.pc = "pass_return"]
          ELSE IF ~PassMedOf(t).enabled \/ ~is_scheduled_today(PassMedOf(t).days, now)
          THEN [@ EXCEPT !.m = @ + 1]
          ELSE [@ EXCEPT !.pc = "pass_time", !.i = 1]]
    /\ UNCHANGED <<now, ticks, envVars, statusVars, authVars, resp, evicted, tally>>

\* "for time_str in ..." and "if was_taken_today(...)", which reads the clock
\* again
PassTime(t) ==
    /\ calls[t].pc = "pass_time"
    /\ calls' = [calls EXCEPT ![t] =
          IF calls[t].i > Len(PassMedOf(t).times)
          THEN [@ EXCEPT !.pc = "pass_med", !.m = @ + 1]
          ELSE IF was_taken_today(PassPairOf(t).medication, PassPairOf(t).time, now)
          THEN [@ EXCEPT !.i = @ + 1]
          ELSE [@ EXCEPT !.pc = "snooze_test"]]
    /\ UNCHANGED <<now, ticks, envVars, statusVars, authVars, resp, evicted, tally>>

\* is_snoozed: "if key not in snooze_cache"
PassSnoozeTest(t) ==
    /\ calls[t].pc = "snooze_test"
    /\ calls' = [calls EXCEPT ![t] =
          IF PassKeyOf(t) \notin DOMAIN snooze_cache THEN Classified(t)
          ELSE [@ EXCEPT !.pc = "snooze_load"]]
    /\ UNCHANGED <<now, ticks, envVars, statusVars, authVars, resp, evicted, tally>>

\* is_snoozed: "snooze_until = snooze_cache[key]"
PassSnoozeLoad(t) ==
    /\ calls[t].pc = "snooze_load"
    /\ IF PassKeyOf(t) \in DOMAIN snooze_cache
       THEN /\ calls' = [calls EXCEPT ![t].pc = "snooze_check",
                                      ![t].snooze_until = snooze_cache[PassKeyOf(t)]]
            /\ UNCHANGED <<snooze_cache, resp, evicted, tally>>
       ELSE PassFault(t)
    /\ UNCHANGED <<now, ticks, envVars, intake_log, authVars>>

\* is_snoozed: "now = datetime.now()", "if now < snooze_until" and
\* "del snooze_cache[key]"; then the classification of the pair
PassSnoozeCheck(t) ==
    /\ calls[t].pc = "snooze_check"
    /\ IF now < calls[t].snooze_until
       THEN /\ calls' = [calls EXCEPT ![t].pc = "pass_time", ![t].i = @ + 1]
            /\ UNCHANGED <<snooze_cache, resp, evicted, tally>>
       ELSE IF PassKeyOf(t) \in DOMAIN snooze_cache
       THEN /\ snooze_cache' =
                  [k \in DOMAIN snooze_cache \ {PassKeyOf(t)} |-> snooze_cache[k]]
            /\ calls' = [calls EXCEPT ![t] = Classified(t)]
            /\ UNCHANGED <<resp, evicted, tally>>
       ELSE PassFault(t)
    /\ UNCHANGED <<now, ticks, envVars, intake_log, authVars>>

\* the three sorts, the returned dictionary and jsonify
PassReturn(t) ==
    /\ calls[t].pc = "pass_return"
    /\ resp' = [op |-> "status", req |-> [token |-> NoToken], status |-> 200,
                body |-> PassReport(t)]
    /\ evicted' = {[cache |-> "snooze", key |-> k, entry |-> calls[t].snoozed[k]] :
                      k \in DOMAIN calls[t].snoozed \ DOMAIN snooze_cache}
    /\ calls' = [calls EXCEPT ![t] = Idle]
    /\ UNCHANGED <<now, ticks, envVars, statusVars, authVars, tally>>

PassData == {[medication |-> "Aspirin", time |-> T0005]}

\* doses are snoozed and confirmed; then the threads serve status requests
\* while the clock advances
NextPass ==
    \/ /\ tally.started = 0
       /\ \E data \in PassData : Snooze(NoToken, data)
    \/ /\ tally.started = 0
       /\ \E data \in PassData : ConfirmIntake(NoToken, data)
    \/ \E d \in StatusSteps : Tick(d, MaxTicks)
    \/ \E t \in Threads : StartPass(t)
    \/ \E t \in Threads : PassMed(t)
    \/ \E t \in Threads : PassTime(t)
    \/ \E t \in Threads : PassSnoozeTest(t)
    \/ \E t \in Threads : PassSnoozeLoad(t)
    \/ \E t \in Threads : PassSnoozeCheck(t)
    \/ \E t \in Threads : PassReturn(t)

SpecPass == InitStatus /\ [][NextPass]_vars

-----------------------------------------------------------------------------
(* Properties of the status side *)

\* whether a status report lists the pair in the bucket
Lists(bucket, medication, time) ==
    \E i \in 1..Len(bucket) :
        bucket[i].medication = medication /\ bucket[i].time = time

ListsAnywhere(body, medication, time) ==
    \/ Lists(body.overdue, medication, time)
    \/ Lists(body.due, medication, time)
    \/ Lists(body.upcoming, medication, time)

StatusAnswered == resp.op = "status" /\ resp.status = 200

\* seconds from today's scheduled instant of a time of day to instant t
DiffSeconds(time, t) == t - (DateOf(t) * SecondsPerDay + SecondsOfTime(time))

\* the (medication, time) pairs of the enabled medications of the current
\* configuration that are scheduled on the day of instant t
ScheduledPairs(t) ==
    UNION { { <<med.name, med.times[j]>> : j \in 1..Len(med.times) } :
            med \in { config.medications[i] : i \in
                        { k \in 1..Len(config.medications) :
                            /\ config.medications[k].enabled
                            /\ is_scheduled_today(config.medications[k].days, t) } } }

\* C1: in a status report made at T with window W, an enabled pair that is
\* scheduled today, not taken and not snoozed is in overdue iff diff > W, in
\* due iff -W <= diff <= W, and in upcoming iff diff < -W (diff = T - scheduled,
\* in minutes)
C1_Thresholds ==
    StatusAnswered =>
        LET T == resp.body.timestamp
            W == config.settings.reminder_window * SecondsPerMinute
        IN  \A p \in ScheduledPairs(T) :
                (/\ ~was_taken_today(p[1], p[2], T)
                 /\ ~(p \in DOMAIN snooze_cache /\ T < snooze_cache[p]))
                =>
                LET diff == DiffSeconds(p[2], T)
                IN  /\ Lists(resp.body.overdue, p[1], p[2]) <=> diff > W
                    /\ Lists(resp.body.due, p[1], p[2]) <=> (-W <= diff /\ diff <= W)
                    /\ Lists(resp.body.upcoming, p[1], p[2]) <=> diff < -W

\* a report that lists a pair as overdue one second after the end of a
\* window of positive length, and another pair as due
C1_Witness ==
    /\ StatusAnswered
    /\ config.settings.reminder_window > 0
    /\ \E i \in 1..Len(resp.body.overdue) :
          resp.body.timestamp - resp.body.overdue[i].scheduled
              = config.settings.reminder_window * SecondsPerMinute + 1
    /\ resp.body.due # <<>>

\* the local calendar date on which a ledger row was appended
LocalDateOfRow(row) == DateOf(row.created_at + utc_offset)

\* C2: a pair for which a 'taken' row was appended today is in no bucket of a
\* later status report of that day
C2_TakenNeverListed ==
    StatusAnswered =>
        \A i \in 1..Len(intake_log) :
            (/\ intake_log[i].status = "taken"
             /\ LocalDateOfRow(intake_log[i]) = DateOf(resp.body.timestamp))
            => ~ListsAnywhere(resp.body, intake_log[i].medication,
                              intake_log[i].scheduled_time)

\* C3: a snooze lasts SNOOZE_MINUTES from the request; a status report made
\* before snooze_until omits the pair and keeps the entry; a report made at
\* snooze_until or later lists the pair (when it is scheduled today and not
\* taken) in the bucket of its diff and deletes the entry
C3_SnoozeWindow ==
    [][ /\ \A token \in StatusTokens, data \in StatusData :
              (Snooze(token, data) /\ resp'.status = 200)
              => /\ <<data.medication, data.time>> \in DOMAIN snooze_cache'
                 /\ snooze_cache'[<<data.medication, data.time>>]
                        = now + 5 * SecondsPerMinute
        /\ \A token \in StatusTokens :
              (GetStatus(token) /\ resp'.status = 200)
              => \A key \in DOMAIN snooze_cache :
                    LET W == config.settings.reminder_window * SecondsPerMinute
                        diff == DiffSeconds(key[2], now)
                    IN  /\ now < snooze_cache[key]
                           => /\ ~ListsAnywhere(resp'.body, key[1], key[2])
                              /\ key \in DOMAIN snooze_cache'
                              /\ snooze_cache'[key] = snooze_cache[key]
                        /\ (/\ now >= snooze_cache[key]
                            /\ key \in ScheduledPairs(now)
                            /\ ~was_taken_today(key[1], key[2], now))
                           => /\ key \notin DOMAIN snooze_cache'
                              /\ diff > W => Lists(resp'.body.overdue, key[1], key[2])
                              /\ (-W <= diff /\ diff <= W)
                                     => Lists(resp'.body.due, key[1], key[2])
                              /\ diff < -W => Lists(resp'.body.upcoming, key[1], key[2])
      ]_vars

\* a report made exactly at snooze_until that lists the pair again and has
\* deleted its snooze entry
C3_Witness ==
    /\ StatusAnswered
    /\ \E e \in evicted :
          /\ e.cache = "snooze"
          /\ e.entry = resp.body.timestamp
          /\ ListsAnywhere(resp.body, e.key[1], e.key[2])
          /\ e.key \notin DOMAIN snooze_cache

-----------------------------------------------------------------------------
(* The handlers behind require_auth, with authentication enabled *)

\* POST /api/config
UpdateConfig(token, data) ==
    LET request == [token |-> token, data |-> data]
    IN
    /\ session_cache' = GateSessions(token)
    /\ evicted' = GateEvicted(token)
    /\ IF ~Authorized(token)
       THEN /\ resp' = [op |-> "update", req |-> request,
                        status |-> 401, body |-> UnauthorizedBody]
            /\ UNCHANGED config
       ELSE IF data = NoData
       THEN /\ resp' = [op |-> "update", req |-> request,
                        status |-> 400, body |-> [error |-> "No data provided"]]
            /\ UNCHANGED config
       ELSE IF "medications" \notin DOMAIN data \/ "settings" \notin DOMAIN data
       THEN /\ resp' = [op |-> "update", req |-> request,
                        status |-> 400, body |-> [error |-> "Invalid config structure"]]
            /\ UNCHANGED config
       ELSE /\ config' = data
            /\ resp' = [op |-> "update", req |-> request, status |-> 200,
                        body |-> [success |-> TRUE, config |-> data]]
    /\ UNCHANGED <<now, ticks, utc_offset, auth_enabled, raceVars, statusVars, otp_cache,
                   rate_limit_cache, issued, outbox>>

\* the "days" the query of get_history uses
HistoryDays(days) == IF days < 1 \/ days > 365 THEN 7 ELSE days

\* the rows with created_at >= date('now', '-N days'): both are UTC
HistoryRows(days) ==
    {i \in 1..Len(intake_log) :
        DateOf(intake_log[i].created_at) >= DateOf(now - utc_offset) - HistoryDays(days)}

\* the orders ORDER BY created_at DESC can return the rows in
Histories(days) ==
    {h \in [1..Cardinality(HistoryRows(days)) -> HistoryRows(days)] :
        /\ \A i, j \in DOMAIN h : i # j => h[i] # h[j]
        /\ \A i, j \in DOMAIN h :
              i < j => intake_log[h[i]].created_at >= intake_log[h[j]].created_at}

\* GET /api/history?days=...
GetHistory(token, days) ==
    /\ session_cache' = GateSessions(token)
    /\ evicted' = GateEvicted(token)
    /\ IF ~Authorized(token)
       THEN resp' = [op |-> "history", req |-> [token |-> token, days |-> days],
                     status |-> 401, body |-> UnauthorizedBody]
       ELSE \E h \in Histories(days) :
               resp' = [op |-> "history", req |-> [token |-> token, days |-> days],
                        status |-> 200,
                        body |-> [history |-> [i \in DOMAIN h |-> intake_log[h[i]]],
                                  days |-> HistoryDays(days)]]
    /\ UNCHANGED <<now, ticks, envVars, raceVars, statusVars, otp_cache,
                   rate_limit_cache, issued, outbox>>

\* one dose a day, and the allow-listed user
GateConfig ==
    [medications |-> <<[name |-> "Aspirin", times |-> <<T0005>>, days |-> <<>>,
                        enabled |-> TRUE]>>,
     settings |-> [reminder_window |-> SNOOZE_MINUTES],
     auth |-> [allowed_emails |-> <<"A@x.de">>]]

\* bodies of POST /api/config: none, a configuration without medications,
\* and one without the key 'settings'
ConfigData ==
    { NoData,
      [medications |-> <<>>,
       settings |-> [reminder_window |-> SNOOZE_MINUTES],
       auth |-> [allowed_emails |-> <<"A@x.de">>]],
      [medications |-> <<>>] }

HistoryArgs == {0}

\* no token, the token of the first session, and the token of the second
\* session, which is unknown until that session is created
GateTokens == {NoToken, 1, 2}

\* a request that came directly from the client at 1.2.3.4
GateRequest == [forwarded |-> None, remote_addr |-> "1.2.3.4"]

InitGate ==
    /\ now = 0
    /\ ticks = 0
    /\ utc_offset = 0
    /\ auth_enabled = TRUE
    /\ config = GateConfig
    /\ intake_log = <<>>
    /\ snooze_cache = <<>>
    /\ otp_cache = <<>>
    /\ session_cache = <<>>
    /\ rate_limit_cache = <<>>
    /\ issued = 0
    /\ outbox = <<>>
    /\ resp = NoResponse
    /\ evicted = {}
    /\ calls = NoCalls
    /\ tally = NoTally

\* the user logs in when not logged in, and requests arrive with no token,
\* the user's tokens, and a token that is not issued yet
NextGate ==
    \/ /\ otp_cache = <<>>
       /\ session_cache = <<>>
       /\ RequestOTP(GateRequest, [email |-> " A@X.de "], "111111", "delivered")
    \/ VerifyOTP([email |-> "a@x.de", otp |-> "111111"])
    \/ \E token \in GateTokens : Logout(token)
    \/ \E token \in GateTokens : GetStatus(token)
    \/ \E token \in GateTokens, data \in PassData : Snooze(token, data)
    \/ \E token \in GateTokens, data \in PassData : ConfirmIntake(token, data)
    \/ \E token \in GateTokens, data \in ConfigData : UpdateConfig(token, data)
    \/ \E token \in GateTokens, days \in HistoryArgs : GetHistory(token, days)
    \/ \E d \in SessionSteps : Tick(d, MaxAuthTicks)

SpecGate == InitGate /\ [][NextGate]_vars

-----------------------------------------------------------------------------
(* Every operation that touches a session, with authentication enabled *)

OriginRequestData == {[email |-> " A@X.de "], [email |-> "eve@x.de"]}

OriginVerifyData ==
    { [email |-> "a@x.de", otp |-> "111111"],
      [email |-> "a@x.de", otp |-> "000000"],
      [email |-> "eve@x.de", otp |-> "111111"] }

\* no token, and the token of the first session
OriginTokens == {NoToken, 1}

\* the clock step: one second past the end of a rate-limit window and of an
\* OTP's life
OriginSteps == {RATE_LIMIT_WINDOW + 1}

\* users on and off the allow-list request codes and, while nobody is
\* logged in, submit them; requests with and without the first session's
\* token reach the other handlers
NextOrigin ==
    \/ \E data \in OriginRequestData :
          \/ RequestOTP(GateRequest, data, "111111", "delivered")
          \/ RequestOTP(GateRequest, data, None, None)
    \/ /\ session_cache = <<>>
       /\ \E data \in OriginVerifyData : VerifyOTP(data)
    \/ \E token \in OriginTokens : AuthCheck(token)
    \/ \E token \in OriginTokens : Logout(token)
    \/ \E token \in OriginTokens : GetStatus(token)
    \/ \E token \in OriginTokens, data \in PassData : Snooze(token, data)
    \/ \E token \in OriginTokens, data \in PassData : ConfirmIntake(token, data)
    \/ \E d \in OriginSteps : Tick(d, MaxAuthTicks)

SpecOrigin == InitGate /\ [][NextOrigin]_vars

-----------------------------------------------------------------------------
(* Requests in the threads of app.run: POST /api/auth/request *)

\* what a frame knows of a dict object it has read from a cache: the object
\* is still the one in the cache, or another thread has replaced or deleted
\* it there and the frame holds the object itself
Attached == [detached |-> FALSE, val |-> <<>>]

Detached(val) == [detached |-> TRUE, val |-> val]

\* the frames of check_rate_limit that hold "entry"
RateHolders == {"rate_read", "rate_write", "rate_check"}

\* the dict "entry" of the frame of thread t
RateEntry(t) ==
    IF calls[t].entry.detached THEN calls[t].entry.val
    ELSE rate_limit_cache[calls[t].ip]

\* auth_request up to "now = datetime.now()" of check_rate_limit
StartRequest(t, request, data) ==
    /\ calls[t].pc = "idle"
    /\ auth_enabled
    /\ tally.started < MaxCalls
    /\ calls' = [calls EXCEPT ![t] =
                    [pc |-> "rate_test", request |-> request, data |-> data,
                     ip |-> get_client_ip(request), clock |-> now,
                     entry |-> Attached, count |-> 0]]
    /\ tally' = [tally EXCEPT !.started = @ + 1]
    /\ UNCHANGED <<now, ticks, envVars, statusVars, authVars, resp, evicted>>

\* "if ip not in rate_limit_cache"
RateTest(t) ==
    /\ calls[t].pc = "rate_test"
    /\ calls' = [calls EXCEPT ![t].pc =
                    IF calls[t].ip \in DOMAIN rate_limit_cache THEN "rate_load"
                    ELSE "rate_new"]
    /\ UNCHANGED <<now, ticks, envVars, statusVars, authVars, resp, evicted, tally>>

\* "rate_limit_cache[ip] = {'count': 1, ...}; return True", on either path;
\* a frame that holds the replaced dict keeps that dict
RateStore(t) ==
    LET ip == calls[t].ip
    IN
    /\ calls[t].pc = "rate_new"
    /\ rate_limit_cache' =
          (ip :> [count |-> 1, reset_time |-> calls[t].clock + RATE_LIMIT_WINDOW])
              @@ rate_limit_cache
    /\ calls' = [u \in Threads |->
                    IF u = t THEN [calls[t] EXCEPT !.pc = "rest"]
                    ELSE IF /\ calls[u].pc \in RateHolders
                            /\ calls[u].ip = ip
                            /\ ~calls[u].entry.detached
                         THEN [calls[u] EXCEPT !.entry = Detached(rate_limit_cache[ip])]
                         ELSE calls[u]]
    /\ tally' = [tally EXCEPT !.admitted = @ + 1]
    /\ UNCHANGED <<now, ticks, envVars, statusVars, otp_cache, session_cache, issued,
                   outbox, resp, evicted>>

\* "entry = rate_limit_cache[ip]; if now > entry['reset_time']"
RateLoad(t) ==
    /\ calls[t].pc = "rate_load"
    /\ calls' = [calls EXCEPT
                    ![t].entry = Attached,
                    ![t].pc = IF calls[t].clock > rate_limit_cache[calls[t].ip].reset_time
                              THEN "rate_new" ELSE "rate_read"]
    /\ UNCHANGED <<now, ticks, envVars, statusVars, authVars, resp, evicted, tally>>

\* "entry['count'] += 1": the read of the count
RateRead(t) ==
    /\ calls[t].pc = "rate_read"
    /\ calls' = [calls EXCEPT ![t].count = RateEntry(t).count, ![t].pc = "rate_write"]
    /\ UNCHANGED <<now, ticks, envVars, statusVars, authVars, resp, evicted, tally>>

\* "entry['count'] += 1": the write of the count read before, plus one
RateWrite(t) ==
    /\ calls[t].pc = "rate_write"
    /\ IF calls[t].entry.detached
       THEN /\ calls' = [calls EXCEPT ![t].entry.val.count = calls[t].count + 1,
                                      ![t].pc = "rate_check"]
            /\ UNCHANGED rate_limit_cache
       ELSE /\ calls' = [calls EXCEPT ![t].pc = "rate_check"]
            /\ rate_limit_cache' =
                  [rate_limit_cache EXCEPT ![calls[t].ip].count = calls[t].count + 1]
    /\ UNCHANGED <<now, ticks, envVars, statusVars, otp_cache, session_cache, issued,
                   outbox, resp, evicted, tally>>

\* "if entry['count'] > RATE_LIMIT_REQUESTS: return False", answered 429 by
\* auth_request, else "return True"
RateCheck(t) ==
    /\ calls[t].pc = "rate_check"
    /\ IF RateEntry(t).count > RATE_LIMIT_REQUESTS
       THEN /\ calls' = [calls EXCEPT ![t] = Idle]
            /\ tally' = [tally EXCEPT !.rejected = @ + 1]
            /\ resp' = [op |-> "request",
                        req |-> [request |-> calls[t].request, data |-> calls[t].data],
                        status |-> RequestResponse(FALSE, calls[t].data, None).status,
                        body |-> RequestResponse(FALSE, calls[t].data, None).body]
            /\ outbox' = <<>>
            /\ evicted' = {}
       ELSE /\ calls' = [calls EXCEPT ![t].pc = "rest"]
            /\ tally' = [tally EXCEPT !.admitted = @ + 1]
            /\ UNCHANGED <<resp, outbox, evicted>>
    /\ UNCHANGED <<now, ticks, envVars, statusVars, otp_cache, session_cache,
                   rate_limit_cache, issued>>

\* auth_request after the rate limit has admitted it
RequestRest(t, otp, sent) ==
    LET data == calls[t].data
        stored == ReachesOtp(TRUE, data)
    IN
    /\ calls[t].pc = "rest"
    /\ IF stored THEN otp \in Codes /\ sent \in MailResults
                 ELSE otp = None /\ sent = None
    /\ otp_cache' = OtpAfterRequest(otp_cache, TRUE, data, otp, now)
    /\ outbox' = IF stored /\ sent = "delivered"
                 THEN <<[to |-> StripLower[data.email], otp |-> otp]>> ELSE <<>>
    /\ resp' = [op |-> "request",
                req |-> [request |-> calls[t].request, data |-> data],
                status |-> RequestResponse(TRUE, data, sent).status,
                body |-> RequestResponse(TRUE, data, sent).body]
    /\ evicted' = {}
    /\ calls' = [calls EXCEPT ![t] = Idle]
    /\ UNCHANGED <<now, ticks, envVars, statusVars, session_cache, rate_limit_cache,
                   issued, tally>>

\* two threads serve the OTP requests of one client for emails that are not
\* on the allow-list, while the clock stands at the start
RaceRequestData == {NoData, [email |-> "eve@x.de"]}

NextRate ==
    \/ \E t \in Threads, request \in Requests, data \in RaceRequestData :
          StartRequest(t, request, data)
    \/ \E t \in Threads : RateTest(t)
    \/ \E t \in Threads : RateStore(t)
    \/ \E t \in Threads : RateLoad(t)
    \/ \E t \in Threads : RateRead(t)
    \/ \E t \in Threads : RateWrite(t)
    \/ \E t \in Threads : RateCheck(t)
    \/ \E t \in Threads : RequestRest(t, None, None)

SpecRate == InitAuth /\ [][NextRate]_vars

-----------------------------------------------------------------------------
(* Requests in the threads of app.run: POST /api/auth/verify *)

\* the frames of auth_verify that hold "stored"
OtpHolders ==
    {"otp_expiry", "otp_read", "otp_write", "otp_attempts", "otp_compare",
     "otp_del_expired", "otp_del_attempts", "otp_del_used"}

\* the dict "stored" of the frame of thread t
OtpStored(t) ==
    IF calls[t].stored.detached THEN calls[t].stored.val
    ELSE otp_cache[calls[t].email]

\* the frames after thread t has returned; the frames that hold the dict
\* which t has deleted from otp_cache keep that dict
AfterOtpDelete(t, frame) ==
    [u \in Threads |->
        IF u = t THEN frame
        ELSE IF /\ calls[u].pc \in OtpHolders
                /\ calls[u].email = calls[t].email
                /\ ~calls[u].stored.detached
             THEN [calls[u] EXCEPT !.stored = Detached(otp_cache[calls[t].email])]
             ELSE calls[u]]

\* the response of the verify request of thread t
VerifyAnswer(t, status, body) ==
    [op |-> "verify", req |-> [data |-> calls[t].data], status |-> status, body |-> body]

\* an exception that leaves auth_verify: Flask answers 500
VerifyFault(t) ==
    /\ calls' = [calls EXCEPT ![t] = Idle]
    /\ tally' = [tally EXCEPT !.faults = @ + 1]
    /\ resp' = VerifyAnswer(t, 500, [error |-> "Internal Server Error"])
    /\ evicted' = {}
    /\ UNCHANGED <<otp_cache, session_cache, issued>>

\* auth_verify up to "if not email or not otp"
StartVerify(t, data) ==
    /\ calls[t].pc = "idle"
    /\ auth_enabled
    /\ tally.started < MaxCalls
    /\ data # NoData
    /\ tally' = [tally EXCEPT !.started = @ + 1]
    /\ IF StripLower[data.email] = "" \/ Strip[data.otp] = ""
       THEN /\ resp' = [op |-> "verify", req |-> [data |-> data], status |-> 400,
                        body |-> [error |-> "Email and OTP required"]]
            /\ evicted' = {}
            /\ UNCHANGED calls
       ELSE /\ calls' = [calls EXCEPT ![t] =
                            [pc |-> "otp_test", data |-> data,
                             email |-> StripLower[data.email], otp |-> Strip[data.otp],
                             stored |-> Attached, attempts |-> 0]]
            /\ UNCHANGED <<resp, evicted>>
    /\ UNCHANGED <<now, ticks, envVars, statusVars, authVars>>

\* "if email not in otp_cache"
OtpTest(t) ==
    /\ calls[t].pc = "otp_test"
    /\ IF calls[t].email \in DOMAIN otp_cache
       THEN /\ calls' = [calls EXCEPT ![t].pc = "otp_load"]
            /\ UNCHANGED <<resp, evicted>>
       ELSE /\ calls' = [calls EXCEPT ![t] = Idle]
            /\ resp' = VerifyAnswer(t, 401, [error |-> "Invalid or expired OTP"])
            /\ evicted' = {}
    /\ UNCHANGED <<now, ticks, envVars, statusVars, authVars, tally>>

\* "stored = otp_cache[email]"
OtpLoad(t) ==
    /\ calls[t].pc = "otp_load"
    /\ IF calls[t].email \in DOMAIN otp_cache
       THEN /\ calls' = [calls EXCEPT ![t].pc = "otp_expiry", ![t].stored = Attached]
            /\ UNCHANGED <<resp, evicted, tally, otp_cache, session_cache, issued>>
       ELSE VerifyFault(t)
    /\ UNCHANGED <<now, ticks, envVars, statusVars, rate_limit_cache, outbox>>

\* "if datetime.now() > stored['expires']"
OtpExpiry(t) ==
    /\ calls[t].pc = "otp_expiry"
    /\ calls' = [calls EXCEPT ![t].pc =
                    IF now > OtpStored(t).expires THEN "otp_del_expired" ELSE "otp_read"]
    /\ UNCHANGED <<now, ticks, envVars, statusVars, authVars, resp, evicted, tally>>

\* "stored['attempts'] += 1": the read of the count
OtpRead(t) ==
    /\ calls[t].pc = "otp_read"
    /\ calls' = [calls EXCEPT ![t].attempts = OtpStored(t).attempts,
                              ![t].pc = "otp_write"]
    /\ UNCHANGED <<now, ticks, envVars, statusVars, authVars, resp, evicted, tally>>

\* "stored['attempts'] += 1": the write of the count read before, plus one
OtpWrite(t) ==
    /\ calls[t].pc = "otp_write"
    /\ IF calls[t].stored.detached
       THEN /\ calls' = [calls EXCEPT ![t].stored.val.attempts = calls[t].attempts + 1,
                                      ![t].pc = "otp_attempts"]
            /\ UNCHANGED otp_cache
       ELSE /\ calls' = [calls EXCEPT ![t].pc = "otp_attempts"]
            /\ otp_cache' =
                  [otp_cache EXCEPT ![calls[t].email].attempts = calls[t].attempts + 1]
    /\ UNCHANGED <<now, ticks, envVars, statusVars, session_cache, rate_limit_cache,
                   issued, outbox, resp, evicted, tally>>

\* "if stored['attempts'] > 3"
OtpAttempts(t) ==
    /\ calls[t].pc = "otp_attempts"
    /\ calls' = [calls EXCEPT ![t].pc =
                    IF TooManyAttempts(OtpStored(t).attempts) THEN "otp_del_attempts"
                    ELSE "otp_compare"]
    /\ UNCHANGED <<now, ticks, envVars, statusVars, authVars, resp, evicted, tally>>

\* "if otp != stored['otp']"
OtpCompare(t) ==
    /\ calls[t].pc = "otp_compare"
    /\ tally' = [tally EXCEPT !.compared = @ + 1]
    /\ IF calls[t].otp # OtpStored(t).otp
       THEN /\ calls' = [calls EXCEPT ![t] = Idle]
            /\ resp' = VerifyAnswer(t, 401, [error |-> "Invalid OTP"])
            /\ evicted' = {}
       ELSE /\ calls' = [calls EXCEPT ![t].pc = "otp_del_used"]
            /\ UNCHANGED <<resp, evicted>>
    /\ UNCHANGED <<now, ticks, envVars, statusVars, authVars>>

\* "del otp_cache[email]" at its three places: KeyError when another thread
\* has deleted the entry before
OtpDelete(t) ==
    LET email == calls[t].email
        gone == {[cache |-> "otp", key |-> email, entry |-> otp_cache[email]]}
    IN
    /\ calls[t].pc \in {"otp_del_expired", "otp_del_attempts", "otp_del_used"}
    /\ IF email \notin DOMAIN otp_cache
       THEN VerifyFault(t)
       ELSE /\ otp_cache' = [k \in DOMAIN otp_cache \ {email} |-> otp_cache[k]]
            /\ UNCHANGED <<session_cache, issued, tally>>
            /\ IF calls[t].pc = "otp_del_used"
               THEN /\ calls' = AfterOtpDelete(t, [calls[t] EXCEPT !.pc = "session"])
                    /\ UNCHANGED <<resp, evicted>>
               ELSE /\ calls' = AfterOtpDelete(t, Idle)
                    /\ evicted' = gone
                    /\ resp' = IF calls[t].pc = "otp_del_expired"
                               THEN VerifyAnswer(t, 401, [error |-> "OTP expired"])
                               ELSE VerifyAnswer(t, 429, [error |-> "Too many attempts"])
    /\ UNCHANGED <<now, ticks, envVars, statusVars, rate_limit_cache, outbox>>

\* "token = create_session(email)" and the response with the cookie
VerifySession(t) ==
    /\ calls[t].pc = "session"
    /\ issued < MaxTokens
    /\ issued' = issued + 1
    /\ session_cache' = (issued + 1 :> NewSession(calls[t].email, now)) @@ session_cache
    /\ resp' = [op |-> "verify", req |-> [data |-> calls[t].data], status |-> 200,
                body |-> [success |-> TRUE, email |-> calls[t].email],
                cookie |-> issued + 1]
    /\ evicted' = {}
    /\ calls' = [calls EXCEPT ![t] = Idle]
    /\ UNCHANGED <<now, ticks, envVars, statusVars, otp_cache, rate_limit_cache, outbox,
                   tally>>

\* one client has its OTP sent and then submits codes, right and wrong, in
\* requests that two threads serve
RaceVerifyData ==
    { [email |-> "a@x.de", otp |-> "111111"],
      [email |-> "a@x.de", otp |-> "000000"] }

NextVerify ==
    \/ /\ tally.started = 0
       /\ \E request \in Requests : RequestOTP(request, [email |-> " A@X.de "],
                                               "111111", "delivered")
    \/ \E t \in Threads, data \in RaceVerifyData : StartVerify(t, data)
    \/ \E t \in Threads : OtpTest(t)
    \/ \E t \in Threads : OtpLoad(t)
    \/ \E t \in Threads : OtpExpiry(t)
    \/ \E t \in Threads : OtpRead(t)
    \/ \E t \in Threads : OtpWrite(t)
    \/ \E t \in Threads : OtpAttempts(t)
    \/ \E t \in Threads : OtpCompare(t)
    \/ \E t \in Threads : OtpDelete(t)
    \/ \E t \in Threads : VerifySession(t)

SpecVerify == InitAuth /\ [][NextVerify]_vars

-----------------------------------------------------------------------------
(* Requests in the threads of app.run: GET /api/auth/check and
   POST /api/auth/logout *)

\* the response of the check request of thread t; email is None when
\* validate_session has returned None
CheckAnswer(t, email) ==
    [op |-> "check", req |-> [token |-> calls[t].token], status |-> 200,
     body |-> [authenticated |-> email # None, auth_enabled |-> TRUE, email |-> email]]

\* auth_check up to the call of validate_session
StartCheck(t, token) ==
    /\ calls[t].pc = "idle"
    /\ auth_enabled
    /\ tally.started < MaxCalls
    /\ tally' = [tally EXCEPT !.started = @ + 1]
    /\ calls' = [calls EXCEPT ![t] = [pc |-> "session_test", token |-> token,
                                      session |-> [email |-> None, expires |-> 0]]]
    /\ UNCHANGED <<now, ticks, envVars, statusVars, authVars, resp, evicted>>

\* "if not token or token not in session_cache"
SessionTest(t) ==
    /\ calls[t].pc = "session_test"
    /\ IF calls[t].token = NoToken \/ calls[t].token \notin DOMAIN session_cache
       THEN /\ resp' = CheckAnswer(t, None)
            /\ evicted' = {}
            /\ calls' = [calls EXCEPT ![t] = Idle]
       ELSE /\ calls' = [calls EXCEPT ![t].pc = "session_load"]
            /\ UNCHANGED <<resp, evicted>>
    /\ UNCHANGED <<now, ticks, envVars, statusVars, authVars, tally>>

\* an exception that leaves auth_check: Flask answers 500
CheckFault(t) ==
    /\ calls' = [calls EXCEPT ![t] = Idle]
    /\ tally' = [tally EXCEPT !.faults = @ + 1]
    /\ resp' = [op |-> "check", req |-> [token |-> calls[t].token], status |-> 500,
                body |-> [error |-> "Internal Server Error"]]
    /\ evicted' = {}
    /\ UNCHANGED session_cache

\* "session = session_cache[token]"
SessionLoad(t) ==
    /\ calls[t].pc = "session_load"
    /\ IF calls[t].token \in DOMAIN session_cache
       THEN /\ calls' = [calls EXCEPT ![t].pc = "session_expiry",
                                      ![t].session = session_cache[calls[t].token]]
            /\ UNCHANGED <<resp, evicted, tally, session_cache>>
       ELSE CheckFault(t)
    /\ UNCHANGED <<now, ticks, envVars, statusVars, otp_cache, rate_limit_cache, issued,
                   outbox>>

\* "if datetime.now() > session['expires']", and "return session['email']"
SessionExpiry(t) ==
    /\ calls[t].pc = "session_expiry"
    /\ IF now > calls[t].session.expires
       THEN /\ calls' = [calls EXCEPT ![t].pc = "session_del"]
            /\ UNCHANGED <<resp, evicted>>
       ELSE /\ resp' = CheckAnswer(t, calls[t].session.email)
            /\ evicted' = {}
            /\ calls' = [calls EXCEPT ![t] = Idle]
    /\ UNCHANGED <<now, ticks, envVars, statusVars, authVars, tally>>

\* "del session_cache[token]" and "return None": KeyError when another thread
\* has deleted the entry before
SessionDelete(t) ==
    LET token == calls[t].token
    IN
    /\ calls[t].pc = "session_del"
    /\ IF token \in DOMAIN session_cache
       THEN /\ session_cache' = [k \in DOMAIN session_cache \ {token} |-> session_cache[k]]
            /\ evicted' = {[cache |-> "session", key |-> token,
                            entry |-> session_cache[token]]}
            /\ resp' = CheckAnswer(t, None)
            /\ calls' = [calls EXCEPT ![t] = Idle]
            /\ UNCHANGED tally
       ELSE CheckFault(t)
    /\ UNCHANGED <<now, ticks, envVars, statusVars, otp_cache, rate_limit_cache, issued,
                   outbox>>

\* auth_logout: "if token and token in session_cache"
StartLogout(t, token) ==
    /\ calls[t].pc = "idle"
    /\ tally.started < MaxCalls
    /\ tally' = [tally EXCEPT !.started = @ + 1]
    /\ IF token # NoToken /\ token \in DOMAIN session_cache
       THEN /\ calls' = [calls EXCEPT ![t] = [pc |-> "logout_del", token |-> token]]
            /\ UNCHANGED <<resp, evicted>>
       ELSE /\ resp' = [op |-> "logout", req |-> [token |-> token], status |-> 200,
                        body |-> [success |-> TRUE], cookie |-> NoToken]
            /\ evicted' = {}
            /\ UNCHANGED calls
    /\ UNCHANGED <<now, ticks, envVars, statusVars, authVars>>

\* auth_logout: "del session_cache[token]" and the response
LogoutDelete(t) ==
    LET token == calls[t].token
    IN
    /\ calls[t].pc = "logout_del"
    /\ calls' = [calls EXCEPT ![t] = Idle]
    /\ IF token \in DOMAIN session_cache
       THEN /\ session_cache' = SessionsAfterLogout(session_cache, token)
            /\ evicted' = {[cache |-> "session", key |-> token,
                            entry |-> session_cache[token]]}
            /\ resp' = [op |-> "logout", req |-> [token |-> token], status |-> 200,
                        body |-> [success |-> TRUE], cookie |-> NoToken]
            /\ UNCHANGED tally
       ELSE /\ tally' = [tally EXCEPT !.faults = @ + 1]
            /\ resp' = [op |-> "logout", req |-> [token |-> token], status |-> 500,
                        body |-> [error |-> "Internal Server Error"]]
            /\ evicted' = {}
            /\ UNCHANGED session_cache
    /\ UNCHANGED <<now, ticks, envVars, statusVars, otp_cache, rate_limit_cache, issued,
                   outbox>>

\* one user logs in; then two threads serve check and logout requests with
\* the user's token while the clock passes the end of the session
NextEvict ==
    \/ /\ tally.started = 0
       /\ \E request \in Requests :
             RequestOTP(request, [email |-> " A@X.de "], "111111", "delivered")
    \/ /\ tally.started = 0
       /\ VerifyOTP([email |-> "a@x.de", otp |-> "111111"])
    \/ \E d \in SessionSteps : Tick(d, MaxAuthTicks)
    \/ \E t \in Threads, token \in OriginTokens : StartCheck(t, token)
    \/ \E t \in Threads : SessionTest(t)
    \/ \E t \in Threads : SessionLoad(t)
    \/ \E t \in Threads : SessionExpiry(t)
    \/ \E t \in Threads : SessionDelete(t)
    \/ \E t \in Threads, token \in OriginTokens : StartLogout(t, token)
    \/ \E t \in Threads : LogoutDelete(t)

SpecEvict == InitAuth /\ [][NextEvict]_vars

-----------------------------------------------------------------------------
(* Properties of the authentication side *)

\* the step is a POST /api/auth/request, a POST /api/auth/verify or a
\* GET /api/auth/check; resp' records the request it handled
RequestStep == resp'.op = "request" /\ ticks' = ticks

VerifyStep == resp'.op = "verify" /\ ticks' = ticks

CheckStep == resp'.op = "check" /\ ticks' = ticks

\* the email is on the allow-list of reminder.yaml, compared without case
AllowListed(email) ==
    email \in { Lower[config.auth.allowed_emails[i]] :
                  i \in 1..Len(config.auth.allowed_emails) }

\* the sessions a step has created
NewTokens == DOMAIN session_cache' \ DOMAIN session_cache

\* C4: a verify call with a wrong code on an unexpired entry with fewer than
\* three recorded attempts answers 'Invalid OTP' and records one more attempt;
\* a verify call on an unexpired entry with three recorded attempts answers
\* 'Too many attempts' whatever its code, creates no session and deletes the
\* entry
C4_FourthAttempt ==
    [][ (VerifyStep /\ resp'.req.data # NoData) =>
          LET email == StripLower[resp'.req.data.email]
              code == Strip[resp'.req.data.otp]
          IN  (/\ email # "" /\ code # ""
               /\ email \in DOMAIN otp_cache
               /\ now <= otp_cache[email].expires)
              =>
              /\ otp_cache[email].attempts <= 3
              /\ (otp_cache[email].attempts < 3 /\ code # otp_cache[email].otp)
                 => /\ resp'.status = 401
                    /\ resp'.body = [error |-> "Invalid OTP"]
                    /\ email \in DOMAIN otp_cache'
                    /\ otp_cache'[email] =
                          [otp_cache[email] EXCEPT !.attempts = @ + 1]
                    /\ session_cache' = session_cache
              /\ otp_cache[email].attempts = 3
                 => /\ resp'.status = 429
                    /\ resp'.body = [error |-> "Too many attempts"]
                    /\ email \notin DOMAIN otp_cache'
                    /\ session_cache' = session_cache
                    /\ issued' = issued
      ]_vars

\* a fourth verify call that carried the right code of an unexpired entry
\* and was still answered 'Too many attempts', the entry being deleted
C4_Witness ==
    /\ resp.op = "verify"
    /\ resp.status = 429
    /\ session_cache = <<>>
    /\ \E e \in evicted :
          /\ e.cache = "otp"
          /\ e.key = StripLower[resp.req.data.email]
          /\ e.entry.attempts = 3
          /\ e.entry.otp = Strip[resp.req.data.otp]
          /\ now <= e.entry.expires
          /\ e.key \notin DOMAIN otp_cache

\* C5: a verify call with the right code on an unexpired entry with fewer
\* than three recorded attempts succeeds, deletes the entry and creates
\* exactly one session, bound to the email; no other verify call succeeds or
\* touches a session; a verify call that finds no entry is rejected, and
\* entries are stored by OTP requests only, so the code is rejected again
\* until a new request has stored a new entry
C5_OneShot ==
    [][ /\ (VerifyStep /\ resp'.req.data # NoData) =>
              LET email == StripLower[resp'.req.data.email]
                  code == Strip[resp'.req.data.otp]
                  right == /\ email # "" /\ code # ""
                           /\ email \in DOMAIN otp_cache
                           /\ now <= otp_cache[email].expires
                           /\ otp_cache[email].attempts < 3
                           /\ code = otp_cache[email].otp
              IN  /\ right =>
                        /\ resp'.status = 200
                        /\ email \notin DOMAIN otp_cache'
                        /\ Cardinality(NewTokens) = 1
                        /\ \A tok \in NewTokens : session_cache'[tok].email = email
                        /\ \A tok \in DOMAIN session_cache :
                              /\ tok \in DOMAIN session_cache'
                              /\ session_cache'[tok] = session_cache[tok]
                  /\ ~right =>
                        /\ resp'.status # 200
                        /\ session_cache' = session_cache
        /\ (VerifyStep /\ resp'.req.data = NoData) =>
              /\ resp'.status # 200
              /\ session_cache' = session_cache
        /\ (DOMAIN otp_cache' \ DOMAIN otp_cache # {}) => RequestStep
      ]_vars

\* the code of the last mail, used once for a session, is submitted again
\* and rejected: the entry is gone and no second session exists
C5_Witness ==
    /\ resp.op = "verify"
    /\ resp.status = 401
    /\ resp.body = [error |-> "Invalid or expired OTP"]
    /\ outbox # <<>>
    /\ outbox[1].to = StripLower[resp.req.data.email]
    /\ outbox[1].otp = Strip[resp.req.data.otp]
    /\ outbox[1].to \notin DOMAIN otp_cache
    /\ issued = 1
    /\ \E tok \in DOMAIN session_cache : session_cache[tok].email = outbox[1].to

\* C6: an OTP request of an IP without an entry, or made after the reset
\* time of its entry, is admitted and leaves the entry count = 1,
\* reset_time = now + 5 minutes; a request made at or before the reset time
\* adds one to the count, keeps the reset time, and is admitted iff it is at
\* most the fifth of the window
C6_RateLimit ==
    [][ RequestStep =>
          LET ip == get_client_ip(resp'.req.request)
              admitted == resp'.status # 429
              fresh == [count |-> 1, reset_time |-> now + 5 * SecondsPerMinute]
          IN  /\ ip \in DOMAIN rate_limit_cache'
              /\ ip \notin DOMAIN rate_limit_cache
                 => admitted /\ rate_limit_cache'[ip] = fresh
              /\ (ip \in DOMAIN rate_limit_cache /\ now > rate_limit_cache[ip].reset_time)
                 => admitted /\ rate_limit_cache'[ip] = fresh
              /\ (ip \in DOMAIN rate_limit_cache /\ now <= rate_limit_cache[ip].reset_time)
                 => /\ rate_limit_cache'[ip].count = rate_limit_cache[ip].count + 1
                    /\ rate_limit_cache'[ip].reset_time = rate_limit_cache[ip].reset_time
                    /\ admitted <=> rate_limit_cache'[ip].count <= 5
      ]_vars

\* the first request after a window in which requests were rejected: it is
\* admitted one second after the reset time and starts a new window
C6_Witness ==
    /\ resp.op = "request"
    /\ resp.status # 429
    /\ \E e \in evicted :
          /\ e.cache = "rate"
          /\ e.key = get_client_ip(resp.req.request)
          /\ e.entry.count > 5
          /\ now = e.entry.reset_time + 1
          /\ rate_limit_cache[e.key] =
                [count |-> 1, reset_time |-> now + 5 * SecondsPerMinute]

\* C7: an OTP request rejected by the rate limit leaves the OTP cache and
\* the session cache as they were and hands no mail to SMTP
C7_RateLimitedFrame ==
    [][ (RequestStep /\ resp'.status = 429) =>
          /\ otp_cache' = otp_cache
          /\ session_cache' = session_cache
          /\ issued' = issued
          /\ outbox' = <<>>
      ]_vars

\* a rate-limited request for an allow-listed email whose earlier entry is
\* still in the OTP cache
C7_Witness ==
    /\ resp.op = "request"
    /\ resp.status = 429
    /\ resp.req.data # NoData
    /\ AllowListed(StripLower[resp.req.data.email])
    /\ StripLower[resp.req.data.email] \in DOMAIN otp_cache
    /\ outbox = <<>>

\* C8: an admitted OTP request for an email that is not on the allow-list
\* leaves the OTP cache as it was, hands no mail to SMTP and answers success;
\* the OTP cache never holds an entry for such an email and no verify call
\* for such an email succeeds or creates a session
C8_NotAllowListed ==
    [][ /\ (RequestStep /\ resp'.status # 429 /\ resp'.req.data # NoData) =>
              LET email == StripLower[resp'.req.data.email]
              IN  (email # "" /\ ~AllowListed(email)) =>
                     /\ otp_cache' = otp_cache
                     /\ session_cache' = session_cache
                     /\ outbox' = <<>>
                     /\ resp'.status = 200
                     /\ resp'.body.success = TRUE
        /\ \A email \in DOMAIN otp_cache' : AllowListed(email)
        /\ (VerifyStep /\ resp'.req.data # NoData) =>
              (~AllowListed(StripLower[resp'.req.data.email])
                  => resp'.status # 200 /\ NewTokens = {})
        /\ \A tok \in NewTokens : AllowListed(session_cache'[tok].email)
      ]_vars

\* an admitted request for an email that is not on the allow-list, answered
\* with success while nothing was stored or mailed
C8_Witness ==
    /\ resp.op = "request"
    /\ resp.status = 200
    /\ resp.req.data # NoData
    /\ StripLower[resp.req.data.email] # ""
    /\ ~AllowListed(StripLower[resp.req.data.email])
    /\ resp.body.success = TRUE
    /\ otp_cache = <<>>
    /\ outbox = <<>>

\* C9: the response to an admitted OTP request for an allow-listed email
\* whose code was stored and delivered equals the response to a request for
\* an email that is not on the allow-list
C9_SameResponse ==
    (/\ resp.op = "request"
     /\ resp.status # 429
     /\ resp.req.data # NoData
     /\ AllowListed(StripLower[resp.req.data.email])
     /\ outbox # <<>>)
    => [status |-> resp.status, body |-> resp.body] = NotAllowedResponse

\* C10: an auth check returns the email bound to the token iff the session
\* cache holds an entry for the token and now <= its expiry, and then leaves
\* the cache as it was; when the entry exists and now > expiry it returns
\* none and removes the entry; a session expires 30 days after its creation
\* and its token was never issued before
C10_ValidateSession ==
    [][ /\ CheckStep =>
              LET token == resp'.req.token
                  live == /\ token \in DOMAIN session_cache
                          /\ now <= session_cache[token].expires
              IN  /\ live <=> resp'.body.email # None
                  /\ live => /\ resp'.body.email = session_cache[token].email
                             /\ session_cache' = session_cache
                  /\ (token \in DOMAIN session_cache /\ ~live)
                     => /\ token \notin DOMAIN session_cache'
                        /\ \A tok \in DOMAIN session_cache \ {token} :
                              /\ tok \in DOMAIN session_cache'
                              /\ session_cache'[tok] = session_cache[tok]
                  /\ token \notin DOMAIN session_cache => session_cache' = session_cache
        /\ \A tok \in NewTokens :
              /\ session_cache'[tok].expires = now + 30 * SecondsPerDay
              /\ tok \notin 0..issued
      ]_vars

\* an auth check one second after the expiry of its session: it reports no
\* email and has removed the entry
C10_Witness ==
    /\ resp.op = "check"
    /\ resp.body.email = None
    /\ \E e \in evicted :
          /\ e.cache = "session"
          /\ e.key = resp.req.token
          /\ now = e.entry.expires + 1
          /\ e.key \notin DOMAIN session_cache

\* the step is a POST /api/auth/logout
LogoutStep == resp'.op = "logout" /\ ticks' = ticks

\* C11: a logout answers success, removes the session entry of its token if
\* there is one and leaves every other entry, also those of the same email,
\* as it was: afterwards the token validates to none and every other token
\* validates as before
C11_Logout ==
    [][ LogoutStep =>
          LET token == resp'.req.token
          IN  /\ resp'.status = 200
              /\ resp'.body = [success |-> TRUE]
              /\ token \notin DOMAIN session_cache'
              /\ DOMAIN session_cache' = DOMAIN session_cache \ {token}
              /\ \A tok \in DOMAIN session_cache' :
                    session_cache'[tok] = session_cache[tok]
              /\ validate_session(session_cache', token, now) = None
              /\ \A tok \in AuthTokens \ {token} :
                    validate_session(session_cache', tok, now)
                        = validate_session(session_cache, tok, now)
      ]_vars

\* a logout that removed the session of its token while a second session of
\* the same email stays in the cache and still validates
C11_Witness ==
    /\ resp.op = "logout"
    /\ \E e \in evicted :
          /\ e.cache = "session"
          /\ e.key = resp.req.token
          /\ e.key \notin DOMAIN session_cache
          /\ \E tok \in DOMAIN session_cache :
                /\ session_cache[tok].email = e.entry.email
                /\ validate_session(session_cache, tok, now) = e.entry.email

\* the step is a POST /api/confirm
ConfirmStep == resp'.op = "confirm" /\ ticks' = ticks

\* the ledger holds a 'taken' row of the pair that was appended on the local
\* calendar day of instant t
TakenOnDayOf(medication, scheduled_time, t) ==
    \E i \in 1..Len(intake_log) :
        /\ intake_log[i].medication = medication
        /\ intake_log[i].scheduled_time = scheduled_time
        /\ intake_log[i].status = "taken"
        /\ LocalDateOfRow(intake_log[i]) = DateOf(t)

\* C12: a confirm of a pair that has a 'taken' row of today answers
\* duplicate and leaves the ledger as it was; a confirm of a valid pair
\* without one answers ok and appends exactly one 'taken' row of the pair;
\* every step keeps the rows the ledger already has
C12_ConfirmOnce ==
    [][ /\ (/\ ConfirmStep
            /\ resp'.req.data # NoData
            /\ validate_medication_input(resp'.req.data.medication,
                                         resp'.req.data.time) = None)
           => LET medication == resp'.req.data.medication
                  scheduled_time == resp'.req.data.time
              IN  IF TakenOnDayOf(medication, scheduled_time, now)
                  THEN /\ resp'.status = 409
                       /\ resp'.body.duplicate = TRUE
                       /\ intake_log' = intake_log
                  ELSE /\ resp'.status = 200
                       /\ Len(intake_log') = Len(intake_log) + 1
                       /\ intake_log'[Len(intake_log')].medication = medication
                       /\ intake_log'[Len(intake_log')].scheduled_time = scheduled_time
                       /\ intake_log'[Len(intake_log')].status = "taken"
        /\ Len(intake_log') >= Len(intake_log)
        /\ SubSeq(intake_log', 1, Len(intake_log)) = intake_log
      ]_vars

\* C13: of the OTP requests that the threads serve for one client IP within
\* one rate-limit window, at most 5 are admitted
C13_AtMostFive ==
    (\A ip \in DOMAIN rate_limit_cache : now <= rate_limit_cache[ip].reset_time)
    => tally.admitted <= 5

\* C14: of the verify requests that the threads serve for one email after
\* its OTP entry was stored, at most 3 reach the comparison of the code and
\* at most one creates a session
C14_AtMostThree ==
    /\ tally.compared <= 3
    /\ issued <= 1
    /\ Cardinality(DOMAIN session_cache) <= 1

\* C15: no request that finds an expired entry another thread is evicting
\* ends in a fault: every check and logout request is answered normally
C15_NoFault ==
    /\ tally.faults = 0
    /\ resp.op \in {"check", "logout"} => resp.status = 200

\* C16: the report of a status pass is the report computed with every
\* decision taken at the instant the pass read as "now"
C16_OneSnapshot ==
    \A t \in Threads :
        calls[t].pc = "pass_return"
        => PassReport(t) = get_medication_status(config, calls[t].snoozed, calls[t].clock)

\* a recurrence set that is empty or has a token that maps to the weekday of
\* instant t
RecursOn(days, t) ==
    \/ days = <<>>
    \/ \E i \in 1..Len(days) :
          /\ DayLowerStrip[days[i]] \in DOMAIN WEEKDAY_MAP
          /\ WEEKDAY_MAP[DayLowerStrip[days[i]]] = WeekdayOf(t)

\* the number of buckets of a report that list a pair
BucketsListing(body, medication, time) ==
    Cardinality({b \in {"overdue", "due", "upcoming"} : Lists(body[b], medication, time)})

\* C17: in a status report made at T, every pair of an enabled medication
\* whose recurrence set is empty or has a token for the weekday of T, and
\* that is neither taken on the day of T nor snoozed at T, is in exactly one
\* of the three buckets; a pair of a disabled medication, or of a medication
\* whose recurrence set is not empty and has no token for that weekday, is in
\* none
C17_Partition ==
    StatusAnswered =>
        LET T == resp.body.timestamp
        IN  \A k \in 1..Len(config.medications) :
              LET med == config.medications[k]
              IN  \A j \in 1..Len(med.times) :
                    LET key == <<med.name, med.times[j]>>
                        n == BucketsListing(resp.body, med.name, med.times[j])
                    IN  /\ (/\ med.enabled
                            /\ RecursOn(med.days, T)
                            /\ ~was_taken_today(med.name, med.times[j], T)
                            /\ ~(key \in DOMAIN snooze_cache /\ T < snooze_cache[key]))
                           => n = 1
                        /\ (~med.enabled \/ ~RecursOn(med.days, T)) => n = 0

\* a report of a Tuesday that lists a dose of the medication without
\* recurrence set and the dose of the medication with the token " TUE ", and
\* does not list the dose of the disabled medication
C17_Witness ==
    /\ StatusAnswered
    /\ Len(config.medications) = 3
    /\ BucketsListing(resp.body, "Aspirin", T0010) = 1
    /\ BucketsListing(resp.body, "Zink", T0005) = 0
    /\ WeekdayOf(resp.body.timestamp) = 1
    /\ BucketsListing(resp.body, "Ibu", T0005) = 1

\* floor(|d| / 60) for a difference of d seconds
FloorAbsMinutes(d) == (IF d < 0 THEN -d ELSE d) \div SecondsPerMinute

T0800 == <<"0", "8", ":", "0", "0">>

\* the entry and the bucket of the dose of 08:00 at hh:mm of day 0, with a
\* window of 30 minutes
EntryAt(hh, mm) ==
    LET t == (hh * 60 + mm) * SecondsPerMinute
    IN  [bucket |-> BucketOf(t - ScheduledInstant(T0800, t), DEFAULT_REMINDER_WINDOW),
         entry |-> MedInfo([medication |-> "Aspirin", time |-> T0800], t,
                           DEFAULT_REMINDER_WINDOW)]

\* C18: every entry of a status report has minutes_diff = floor(|diff|) and
\* exactly one of minutes_late and minutes_until: minutes_late = floor(diff)
\* when it is overdue or is due with diff > 0, minutes_until = floor(-diff)
\* when it is upcoming or is due with diff <= 0; with window 30 and schedule
\* 08:00, 08:25 gives due and minutes_late 25, 07:20 gives upcoming and
\* minutes_until 40, 09:05 gives overdue and minutes_late 65
C18_EntryFields ==
    /\ StatusAnswered =>
          \A b \in {"overdue", "due", "upcoming"} :
             \A i \in 1..Len(resp.body[b]) :
                LET e == resp.body[b][i]
                    diff == DiffSeconds(e.time, resp.body.timestamp)
                    late == "minutes_late" \in DOMAIN e
                    until == "minutes_until" \in DOMAIN e
                IN  /\ e.minutes_diff = FloorAbsMinutes(diff)
                    /\ late # until
                    /\ (b = "overdue" \/ (b = "due" /\ diff > 0))
                       => late /\ e.minutes_late = diff \div SecondsPerMinute
                    /\ (b = "upcoming" \/ (b = "due" /\ diff <= 0))
                       => until /\ e.minutes_until = (-diff) \div SecondsPerMinute
    /\ EntryAt(8, 25).bucket = "due"
    /\ "minutes_until" \notin DOMAIN EntryAt(8, 25).entry
    /\ EntryAt(8, 25).entry.minutes_late = 25
    /\ EntryAt(7, 20).bucket = "upcoming"
    /\ "minutes_late" \notin DOMAIN EntryAt(7, 20).entry
    /\ EntryAt(7, 20).entry.minutes_until = 40
    /\ EntryAt(9, 5).bucket = "overdue"
    /\ "minutes_until" \notin DOMAIN EntryAt(9, 5).entry
    /\ EntryAt(9, 5).entry.minutes_late = 65

\* a report with an overdue entry whose diff is not a whole number of
\* minutes and a due entry that is late
C18_Witness ==
    /\ StatusAnswered
    /\ \E i \in 1..Len(resp.body.overdue) :
          /\ DiffSeconds(resp.body.overdue[i].time, resp.body.timestamp)
                 % SecondsPerMinute # 0
          /\ resp.body.overdue[i].minutes_late > 0
    /\ \E i \in 1..Len(resp.body.due) : "minutes_late" \in DOMAIN resp.body.due[i]

\* a time of day written as H:MM or HH:MM with hour 0-23 and minute 0-59
WellFormedTime(s) ==
    /\ Len(s) \in {4, 5}
    /\ \A i \in 1..Len(s) : i = Len(s) - 2 => s[i] = ":"
    /\ \A i \in 1..Len(s) : i # Len(s) - 2 => s[i] \in Digits
    /\ Len(s) = 5 => DigitVal[s[1]] * 10 + DigitVal[s[2]] <= 23
    /\ DigitVal[s[Len(s) - 1]] <= 5

Malformed(data) ==
    \/ data.medication = ""
    \/ Len(data.medication) > 100
    \/ ~WellFormedTime(data.time)

\* a step of POST /api/snooze or POST /api/confirm with a JSON body
InputStep ==
    /\ resp'.op \in {"snooze", "confirm"}
    /\ ticks' = ticks
    /\ resp'.req.data # NoData

\* C19: a snooze or confirm request with malformed input is answered with a
\* validation error (400) and leaves the snooze cache and the intake ledger
\* unchanged; a snooze request changes the entry of no key but its own
C19_RejectMalformed ==
    [][ InputStep =>
          /\ Malformed(resp'.req.data)
             => /\ resp'.status = 400
                /\ snooze_cache' = snooze_cache
                /\ intake_log' = intake_log
          /\ resp'.op = "snooze"
             => \A key \in DOMAIN snooze_cache :
                   key # <<resp'.req.data.medication, resp'.req.data.time>>
                   => key \in DOMAIN snooze_cache' /\ snooze_cache'[key] = snooze_cache[key]
      ]_vars

\* C19 for input whose time does not end in a line feed
C19_RejectMalformedNoLineFeed ==
    [][ (InputStep /\ resp'.req.data.time # T0005LF) =>
          /\ Malformed(resp'.req.data)
             => /\ resp'.status = 400
                /\ snooze_cache' = snooze_cache
                /\ intake_log' = intake_log
          /\ resp'.op = "snooze"
             => \A key \in DOMAIN snooze_cache :
                   key # <<resp'.req.data.medication, resp'.req.data.time>>
                   => key \in DOMAIN snooze_cache' /\ snooze_cache'[key] = snooze_cache[key]
      ]_vars

\* a step of a request to one of the handlers behind require_auth
GatedStep ==
    /\ resp'.op \in {"status", "snooze", "confirm", "update", "history"}
    /\ ticks' = ticks

\* C20: with authentication enabled, the snooze cache, the intake ledger and
\* the configuration change only in a request whose token validate_session
\* maps to an email at that time; a request to a handler behind require_auth
\* whose token it maps to None is answered 401 Unauthorized and changes
\* nothing but the session cache, from which it deletes the expired entry of
\* the token
C20_Gate ==
    [][ auth_enabled =>
          /\ (snooze_cache' # snooze_cache \/ intake_log' # intake_log \/ config' # config)
             => /\ GatedStep
                /\ validate_session(session_cache, resp'.req.token, now) # None
          /\ (GatedStep /\ validate_session(session_cache, resp'.req.token, now) = None)
             => /\ resp'.status = 401
                /\ resp'.body = UnauthorizedBody
                /\ UNCHANGED <<snooze_cache, intake_log, config, otp_cache,
                               rate_limit_cache, issued>>
                /\ session_cache' =
                      [k \in {j \in DOMAIN session_cache :
                                 j # resp'.req.token \/ now <= session_cache[j].expires}
                          |-> session_cache[k]]
      ]_vars

\* the user has snoozed a dose, confirmed it and replaced the configuration;
\* a later request with the token, now expired, is answered 401 and evicts
\* the session
C20_Witness ==
    /\ auth_enabled
    /\ snooze_cache # <<>>
    /\ intake_log # <<>>
    /\ config # GateConfig
    /\ resp.op \in {"snooze", "confirm", "update", "status", "history"}
    /\ resp.status = 401
    /\ evicted # {}

\* the emails whose OTP entry a step has stored or replaced
StoredOtps ==
    {e \in DOMAIN otp_cache' :
        \/ e \notin DOMAIN otp_cache
        \/ otp_cache'[e].expires # otp_cache[e].expires
        \/ otp_cache'[e].otp # otp_cache[e].otp
        \/ otp_cache'[e].attempts < otp_cache[e].attempts}

\* C21: a session entry is added only by a verify call that presents the
\* code of an unexpired OTP entry of its email, and the session is bound to
\* that email; an OTP entry is stored only by an OTP request that the rate
\* limit admits and whose email is on the allow-list; no step changes the
\* email or the expiry of a session that exists
C21_SessionOrigin ==
    [][ /\ NewTokens # {}
           => /\ VerifyStep
              /\ resp'.req.data # NoData
              /\ LET email == StripLower[resp'.req.data.email]
                 IN  /\ email \in DOMAIN otp_cache
                     /\ Strip[resp'.req.data.otp] = otp_cache[email].otp
                     /\ now <= otp_cache[email].expires
                     /\ \A tok \in NewTokens : session_cache'[tok].email = email
        /\ StoredOtps # {}
           => /\ RequestStep
              /\ resp'.req.data # NoData
              /\ StoredOtps = {StripLower[resp'.req.data.email]}
              /\ AllowListed(StripLower[resp'.req.data.email])
              /\ LET ip == get_client_ip(resp'.req.request)
                 IN  \/ ip \notin DOMAIN rate_limit_cache
                     \/ now > rate_limit_cache[ip].reset_time
                     \/ rate_limit_cache[ip].count + 1 <= 5
        /\ \A tok \in DOMAIN session_cache \cap DOMAIN session_cache' :
              session_cache'[tok] = session_cache[tok]
      ]_vars

\* a session exists although requests of an email off the allow-list, a
\* request rejected by the rate limit and a verify call with a wrong code
\* have happened: the last request was rejected with 429 and the OTP cache
\* holds no entry for the other email
C21_Witness ==
    /\ session_cache # <<>>
    /\ \A tok \in DOMAIN session_cache : AllowListed(session_cache[tok].email)
    /\ resp.op = "request"
    /\ resp.status = 429
    /\ "eve@x.de" \notin DOMAIN otp_cache

\* C22: whatever the interleaving of the confirm requests, the ledger holds
\* at most one 'taken' row for a pair and a day
C22_OneRowPerDay ==
    \A i, j \in 1..Len(intake_log) :
        (/\ i < j
         /\ intake_log[i].status = "taken" /\ intake_log[j].status = "taken"
         /\ intake_log[i].medication = intake_log[j].medication
         /\ intake_log[i].scheduled_time = intake_log[j].scheduled_time)
        => LocalDateOfRow(intake_log[i]) # LocalDateOfRow(intake_log[j])

====
